---- MODULE Spec2Model ----
(***************************************************************************)
(* MediTrack: the prescription OCR pipeline of src/ocr_service.py and its  *)
(* HTTP handler in src/main.py.                                            *)
(*                                                                         *)
(* Text is modelled as TLA+ strings, character by character; each regular  *)
(* expression of the source is a matcher over the characters of a line.    *)
(* Python's None is the empty tuple and a present value v is <<v>>.        *)
(***************************************************************************)
EXTENDS Integers, Sequences, FiniteSets, TLC

None == <<>>
Some(v) == <<v>>

\* ------------------------------------------------------------------ bounds
\* lines per parsed text
MaxLines == 2
\* calls made in one run of the process, each in a thread of its own
MaxCalls == 2
\* spans returned by one readtext call
MaxSpans == 1

\* ------------------------------------------------------- characters, strings
Digits == {"0", "1", "2", "3", "4", "5", "6", "7", "8", "9"}
Uppers == <<"A", "B", "C", "D", "E", "F", "G", "H", "I", "J", "K", "L", "M",
            "N", "O", "P", "Q", "R", "S", "T", "U", "V", "W", "X", "Y", "Z">>
Lowers == <<"a", "b", "c", "d", "e", "f", "g", "h", "i", "j", "k", "l", "m",
            "n", "o", "p", "q", "r", "s", "t", "u", "v", "w", "x", "y", "z">>
UpperSet == {Uppers[i] : i \in DOMAIN Uppers}
LowerSet == {Lowers[i] : i \in DOMAIN Lowers}
WordChars == Digits \cup UpperSet \cup LowerSet \cup {"_"}
\* \s of the re module, as far as a TLA+ string literal can hold it
SpaceChars == {" ", "\t", "\n", "\r"}

\* s[i-1] of Python, "" outside the string
Ch(s, i) == IF i >= 1 /\ i <= Len(s) THEN SubSeq(s, i, i) ELSE ""

LowerCh(c) == IF c \in UpperSet
              THEN Lowers[CHOOSE i \in DOMAIN Uppers : Uppers[i] = c]
              ELSE c

RECURSIVE Lower(_)
Lower(s) == IF Len(s) = 0 THEN ""
            ELSE LowerCh(Ch(s, 1)) \o Lower(SubSeq(s, 2, Len(s)))

\* number of consecutive characters of s from position i that lie in cs
RECURSIVE RunLen(_, _, _)
RunLen(s, i, cs) == IF Ch(s, i) \in cs THEN 1 + RunLen(s, i + 1, cs) ELSE 0

\* \b between s[i-1] and s[i] (1-based position i)
WordBoundary(s, i) == (Ch(s, i - 1) \in WordChars) # (Ch(s, i) \in WordChars)

\* a literal of a re.IGNORECASE pattern matching at position i
LitAt(s, i, lit) == /\ i >= 1
                    /\ i + Len(lit) - 1 <= Len(s)
                    /\ Lower(SubSeq(s, i, i + Len(lit) - 1)) = lit

Min2(a, b) == IF a <= b THEN a ELSE b

\* str.strip()
RECURSIVE LStrip(_)
LStrip(s) == IF Ch(s, 1) \in SpaceChars THEN LStrip(SubSeq(s, 2, Len(s))) ELSE s
RECURSIVE RStrip(_)
RStrip(s) == IF Ch(s, Len(s)) \in SpaceChars THEN RStrip(SubSeq(s, 1, Len(s) - 1)) ELSE s
Strip(s) == RStrip(LStrip(s))

\* "\n".join(seq)
RECURSIVE JoinLines(_)
JoinLines(seq) == IF Len(seq) = 0 THEN ""
                  ELSE IF Len(seq) = 1 THEN seq[1]
                  ELSE seq[1] \o "\n" \o JoinLines(Tail(seq))

\* first position >= i of s holding a character of cs, Len(s)+1 when none
RECURSIVE FindCh(_, _, _)
FindCh(s, i, cs) == IF i > Len(s) \/ Ch(s, i) \in cs THEN i ELSE FindCh(s, i + 1, cs)

\* the pieces of text between the characters of seps, empty pieces included
RECURSIVE SplitOn(_, _)
SplitOn(text, seps) ==
    LET n == FindCh(text, 1, seps)
    IN  IF n > Len(text) THEN <<text>>
        ELSE <<SubSeq(text, 1, n - 1)>> \o SplitOn(SubSeq(text, n + 1, Len(text)), seps)

\* int(s) for a string of decimal digits
DigitVal(c) == CHOOSE d \in 0..9 : Ch("0123456789", d + 1) = c
RECURSIVE IntOf(_)
IntOf(s) == IF Len(s) = 0 THEN 0
            ELSE 10 * IntOf(SubSeq(s, 1, Len(s) - 1)) + DigitVal(Ch(s, Len(s)))

\* int(s) raises ValueError unless s is a numeral
IsNumeral(s) == s # "" /\ RunLen(s, 1, Digits) = Len(s)

\* str(n) for n >= 0
RECURSIVE StrOf(_)
StrOf(n) == IF n < 10 THEN Ch("0123456789", n + 1)
            ELSE StrOf(n \div 10) \o Ch("0123456789", (n % 10) + 1)

\* --------------------------------------------------------- calendar dates
\* a date is <<year, month, day>>; datetime.toordinal() of the standard library
IsLeap(y) == (y % 4 = 0) /\ ((y % 100 # 0) \/ (y % 400 = 0))
DaysInMonth(y, m) == IF m = 2 THEN (IF IsLeap(y) THEN 29 ELSE 28)
                     ELSE IF m \in {4, 6, 9, 11} THEN 30 ELSE 31
RECURSIVE DaysBeforeMonth(_, _)
DaysBeforeMonth(y, m) == IF m <= 1 THEN 0
                         ELSE DaysBeforeMonth(y, m - 1) + DaysInMonth(y, m - 1)
DaysBeforeYear(y) == (y - 1) * 365 + ((y - 1) \div 4) - ((y - 1) \div 100)
                     + ((y - 1) \div 400)
Ordinal(d) == DaysBeforeYear(d[1]) + DaysBeforeMonth(d[1], d[2]) + d[3]
\* datetime(y, m, d) raises ValueError unless the date exists
ValidDate(y, m, d) == /\ y >= 1 /\ y <= 9999
                      /\ m >= 1 /\ m <= 12
                      /\ d >= 1 /\ d <= DaysInMonth(y, m)

\* ------------------------------------- parse_prescription_text: its fields
\* Every matcher hands what it has matched so far to the next one as an
\* argument, so that each definition is used once where it is needed.

\* the position after the words ws, separated by \s+, matched from i; 0 on failure
RECURSIVE PhraseEnd(_, _, _)
PhraseRest(s, e, n, ws) ==
    IF Len(ws) = 0 THEN e
    ELSE IF n = 0 THEN 0
    ELSE PhraseEnd(s, e + n, ws)
PhraseEnd(s, i, ws) ==
    IF ~LitAt(s, i, ws[1]) THEN 0
    ELSE PhraseRest(s, i + Len(ws[1]), RunLen(s, i + Len(ws[1]), SpaceChars), Tail(ws))

\* an alternation of phrases between two \b: the position after the first
\* alternative that matches at i and ends at a \b, 0 when none does
RECURSIVE FirstPhraseEnd(_, _, _)
FirstPhrasePick(s, i, ps, e) ==
    IF e # 0 /\ WordBoundary(s, e) THEN e ELSE FirstPhraseEnd(s, i, Tail(ps))
FirstPhraseEnd(s, i, ps) ==
    IF Len(ps) = 0 THEN 0 ELSE FirstPhrasePick(s, i, ps, PhraseEnd(s, i, ps[1]))
LabelEnd(s, i, ps) == IF WordBoundary(s, i) THEN FirstPhraseEnd(s, i, ps) ELSE 0

\* lines 272 and 277: (\d{1,2})\s*:\s*(\d{2}), then \s*(am|pm) on line 272.
\* <<group 1, group 2, the position after group 2>> matched at i, None when no
\* match: after \d{1,2} must come \s*:, so the hour is the whole run of digits
TimeMinutesAt(s, hr, k) ==
    IF RunLen(s, k, Digits) >= 2 THEN Some(<<hr, SubSeq(s, k, k + 1), k + 2>>)
    ELSE None
TimeColonAt(s, hr, j) ==
    IF Ch(s, j) = ":" THEN TimeMinutesAt(s, hr, j + 1 + RunLen(s, j + 1, SpaceChars))
    ELSE None
TimeHourLen(s, i, nd) ==
    IF nd = 0 THEN None
    ELSE TimeColonAt(s, SubSeq(s, i, i + nd - 1),
                     i + nd + RunLen(s, i + nd, SpaceChars))
TimeMatchAt(s, i) == TimeHourLen(s, i, Min2(2, RunLen(s, i, Digits)))

\* line 272, group 3 at position p, upper-cased as line 274 does
PeriodAt(s, p) ==
    IF LitAt(s, p, "am") THEN Some("AM")
    ELSE IF LitAt(s, p, "pm") THEN Some("PM") ELSE None
Time12Period(g, per) == IF per = None THEN None ELSE Some(<<g[1], g[2], per[1]>>)
Time12After(s, g) ==
    IF g = None THEN None
    ELSE Time12Period(g[1], PeriodAt(s, g[1][3] + RunLen(s, g[1][3], SpaceChars)))
Time12At(s, i) == Time12After(s, TimeMatchAt(s, i))

\* re.search: the leftmost match
RECURSIVE Time12SearchFrom(_, _)
Time12SearchHit(s, i, g) == IF g # None THEN g ELSE Time12SearchFrom(s, i + 1)
Time12SearchFrom(s, i) ==
    IF i > Len(s) THEN None ELSE Time12SearchHit(s, i, Time12At(s, i))
Time12Search(s) == Time12SearchFrom(s, 1)

RECURSIVE Time24SearchFrom(_, _)
Time24SearchHit(s, i, g) == IF g # None THEN g ELSE Time24SearchFrom(s, i + 1)
Time24SearchFrom(s, i) ==
    IF i > Len(s) THEN None ELSE Time24SearchHit(s, i, TimeMatchAt(s, i))
Time24Search(s) == Time24SearchFrom(s, 1)

\* (midnight shown as hour 0)
DisplayHourNoMidnight(hr) == IF hr <= 12 THEN hr ELSE hr - 12
\* lines 281-282
DisplayHour(hr) == IF hr = 0 THEN 12 ELSE IF hr <= 12 THEN hr ELSE hr - 12
\* line 280
PeriodOfHour(hr) == IF hr < 12 THEN "AM" ELSE "PM"
\* line 279: the plausibility bound on a 24-hour hour
HourInRange(hr) == hr >= 0 /\ hr <= 23

\* lines 277-283: a time without a period
Time24Value(data, hr, mn) ==
    IF HourInRange(hr)
    THEN [data EXCEPT !.time = Some(StrOf(DisplayHour(hr)) \o ":" \o mn \o " "
                                      \o PeriodOfHour(hr))]
    ELSE data
Time24Match(data, m) ==
    IF m = None THEN [exc |-> FALSE, data |-> data]
    ELSE IF ~IsNumeral(m[1][1]) THEN [exc |-> TRUE, data |-> data]
    ELSE [exc |-> FALSE, data |-> Time24Value(data, IntOf(m[1][1]), m[1][2])]
\* lines 272-275: a time with its period keeps the hour as it was written
Time12Match(data, ln, m) ==
    IF m # None
    THEN [exc |-> FALSE,
          data |-> [data EXCEPT !.time = Some(m[1][1] \o ":" \o m[1][2] \o " "
                                                \o m[1][3])]]
    ELSE Time24Match(data, Time24Search(ln))
\* lines 270-283
TimeSection(data, ln) ==
    IF data.time # None THEN [exc |-> FALSE, data |-> data]
    ELSE Time12Match(data, ln, Time12Search(ln))

\* at most `most` digits from position j
TakeDigits(s, j, most) == SubSeq(s, j, j + Min2(most, RunLen(s, j, Digits)) - 1)

\* line 287: \b(age|yrs?|years?)\b[\s:]*([0-9]{1,3}), re.IGNORECASE
AgeLabels == << <<"age">>, <<"yrs">>, <<"yr">>, <<"years">>, <<"year">> >>

\* group 2 of the pattern matched at position i, "" when it does not match there
AgeDigitsAfter(s, e) ==
    IF e = 0 THEN "" ELSE TakeDigits(s, e + RunLen(s, e, SpaceChars \cup {":"}), 3)
AgeMatchAt(s, i) == AgeDigitsAfter(s, LabelEnd(s, i, AgeLabels))

\* re.search: the leftmost match
RECURSIVE AgeSearchFrom(_, _)
AgeSearchHit(s, i, g) == IF g # "" THEN Some(g) ELSE AgeSearchFrom(s, i + 1)
AgeSearchFrom(s, i) ==
    IF i > Len(s) THEN None ELSE AgeSearchHit(s, i, AgeMatchAt(s, i))
AgeSearch(s) == AgeSearchFrom(s, 1)

\* line 295: \b(?:dob|date\s+of\s+birth|birth\s+date)\b[\s:]*(\d{1,2})\s*
\*           (jan|...|dec|january|...|december)\s*(\d{4}), re.IGNORECASE
DobPhrases == << <<"dob">>, <<"date", "of", "birth">>, <<"birth", "date">> >>
MonthNames == <<"jan", "feb", "mar", "apr", "may", "jun", "jul", "aug", "sep",
                "oct", "nov", "dec", "january", "february", "march", "april",
                "june", "july", "august", "september", "october", "november",
                "december">>

\* groups <<1, 2, 3>> of the pattern matched at position i, None when no match:
\* the month alternatives are tried in order, each followed by \s*(\d{4})
RECURSIVE DobMonthFrom(_, _, _, _)
DobYearAt(s, day, k, m, y) ==
    IF RunLen(s, y, Digits) >= 4
    THEN Some(<<day, SubSeq(s, k, k + Len(MonthNames[m]) - 1), SubSeq(s, y, y + 3)>>)
    ELSE DobMonthFrom(s, day, k, m + 1)
DobMonthFrom(s, day, k, m) ==
    IF m > Len(MonthNames) THEN None
    ELSE IF LitAt(s, k, MonthNames[m])
         THEN DobYearAt(s, day, k, m, k + Len(MonthNames[m])
                           + RunLen(s, k + Len(MonthNames[m]), SpaceChars))
    ELSE DobMonthFrom(s, day, k, m + 1)
DobDayLen(s, j, nd) ==
    IF nd \notin {1, 2} THEN None
    ELSE DobMonthFrom(s, SubSeq(s, j, j + nd - 1),
                      j + nd + RunLen(s, j + nd, SpaceChars), 1)
DobDayAt(s, j) == DobDayLen(s, j, RunLen(s, j, Digits))
DobAfterLabel(s, e) ==
    IF e = 0 THEN None ELSE DobDayAt(s, e + RunLen(s, e, SpaceChars \cup {":"}))
DobMatchAt(s, i) == DobAfterLabel(s, LabelEnd(s, i, DobPhrases))

RECURSIVE DobSearchFrom(_, _)
DobSearchHit(s, i, g) == IF g # None THEN g ELSE DobSearchFrom(s, i + 1)
DobSearchFrom(s, i) ==
    IF i > Len(s) THEN None ELSE DobSearchHit(s, i, DobMatchAt(s, i))
DobSearch(s) == DobSearchFrom(s, 1)

\* lines 300-301: months.get(month_str[:3], 1)
MonthOfKey(key) ==
    IF \E m \in 1..12 : MonthNames[m] = key
    THEN CHOOSE m \in 1..12 : MonthNames[m] = key
    ELSE 1
MonthNumber(month_str) == MonthOfKey(SubSeq(Lower(month_str), 1, Min2(3, Len(month_str))))

\* (the adult boundary off by one)
AgeGroupOfLabelOffByOne(age_val) ==
    IF age_val <= 18 THEN "pediatric"
    ELSE IF age_val >= 65 THEN "elderly" ELSE "adult"

\* line 292
AgeGroupOfLabel(age_val) ==
    IF age_val < 18 THEN "pediatric"
    ELSE IF age_val >= 65 THEN "elderly" ELSE "adult"

\* line 305
AgeGroupOfDob(age_years) ==
    IF age_years < 18 THEN "pediatric"
    ELSE IF age_years >= 65 THEN "elderly" ELSE "adult"

\* line 290: the plausibility bound on a labelled age
AgeLabelInRange(age_val) == age_val >= 1 /\ age_val <= 120

\* line 303: the plausibility bound on an age derived from a date of birth
AgeDobInRange(age_years) == age_years >= 0 /\ age_years <= 120

\* lines 287-292: the labelled age
AgeFromValue(data, age_val) ==
    IF AgeLabelInRange(age_val)
    THEN [data EXCEPT !.age = Some(StrOf(age_val)),
                      !.age_group = Some(AgeGroupOfLabel(age_val))]
    ELSE data
AgeFromMatch(data, m) ==
    IF m = None THEN [exc |-> FALSE, data |-> data]
    ELSE IF ~IsNumeral(m[1]) THEN [exc |-> TRUE, data |-> data]
    ELSE [exc |-> FALSE, data |-> AgeFromValue(data, IntOf(m[1]))]
AgeFromLabel(data, ln) == AgeFromMatch(data, AgeSearch(ln))

\* lines 298-305, the body of the try: exc is TRUE when datetime() raises
DobFromAge(data, age_years) ==
    IF AgeDobInRange(age_years)
    THEN [exc |-> FALSE,
          data |-> [data EXCEPT !.age = Some(StrOf(age_years)),
                                !.age_group = Some(AgeGroupOfDob(age_years))]]
    ELSE [exc |-> FALSE, data |-> data]
DobFromDate(data, day, month, year, today) ==
    IF year < 1900 \/ year > 2100 THEN [exc |-> FALSE, data |-> data]
    ELSE IF ~ValidDate(year, month, Min2(day, 28)) THEN [exc |-> TRUE, data |-> data]
    ELSE DobFromAge(data, (Ordinal(today) - Ordinal(<<year, month, Min2(day, 28)>>))
                             \div 365)
DobBody(data, m, today) ==
    IF ~IsNumeral(m[1]) \/ ~IsNumeral(m[3]) THEN [exc |-> TRUE, data |-> data]
    ELSE DobFromDate(data, IntOf(m[1]), MonthNumber(m[2]), IntOf(m[3]), today)

\* (no try around the date arithmetic: the ValueError leaves the parser)
ExceptNothing(r, data) == r

\* lines 306-307: except Exception: pass
ExceptPass(r, data) == IF r.exc THEN [exc |-> FALSE, data |-> data] ELSE r

\* lines 286-307
AgeSectionTry(d1, m, today) ==
    IF m = None THEN [exc |-> FALSE, data |-> d1]
    ELSE ExceptPass(DobBody(d1, m[1], today), d1)
AgeSectionDob(r, ln, today) ==
    IF r.exc \/ r.data.age # None THEN r
    ELSE AgeSectionTry(r.data, DobSearch(ln), today)
AgeSection(data, ln, today) ==
    IF data.age # None THEN [exc |-> FALSE, data |-> data]
    ELSE AgeSectionDob(AgeFromLabel(data, ln), ln, today)

\* line 123: [ln.strip() for ln in text.splitlines() if ln.strip()]
StripAll(pieces) == [i \in DOMAIN pieces |-> Strip(pieces[i])]
ParseLines(text) ==
    SelectSeq(StripAll(SplitOn(text, {"\n", "\r"})), LAMBDA ln : ln # "")

\* ------------------------------------------------------ regular expressions
\* A pattern of the re module, written as a tree.
\* the characters of w, one after the other
Lit(w) == <<1, w>>
\* [...]: one character of cs
In(cs) == <<2, cs>>
\* [^...]: one character outside cs
NotIn(cs) == <<3, cs>>
\* the patterns of ns, one after the other
Cat(ns) == <<4, ns>>
\* a|b|c: the alternatives of ns, tried from the left
Alt(ns) == <<5, ns>>
\* n{lo,hi}: as many as possible first
Rep(n, lo, hi) == <<6, n, lo, hi>>
\* n{lo,hi}?: as few as possible first
Lazy(n, lo, hi) == <<7, n, lo, hi>>
\* (n): capturing group number k
Grp(k, n) == <<8, k, n>>
\* ^, $ and \b
Bol == <<9>>
Eol == <<10>>
Wb == <<11>>
\* the upper end of *, + and {n,}: more than a line has characters
Many == 99
\* \s*, \s+, \d, \d+ and \d+(?:\.\d+)?
S0 == Rep(In(SpaceChars), 0, Many)
S1 == Rep(In(SpaceChars), 1, Many)
D == In(Digits)
D1 == Rep(D, 1, Many)
Num == Cat(<<D1, Rep(Cat(<<Lit("."), D1>>), 0, 1)>>)
\* w1|w2|...: one of the words of ws, tried from the left
OneOf(ws) == <<12, ws>>

\* re.IGNORECASE: the pattern is put in lower case, to be matched against the
\* subject in lower case
RECURSIVE IgnoreCase(_)
IgnoreCaseAll(ns) == [i \in DOMAIN ns |-> IgnoreCase(ns[i])]
IgnoreCase(n) ==
    CASE n[1] = 1 -> Lit(Lower(n[2]))
      [] n[1] \in {2, 3} -> <<n[1], {LowerCh(c) : c \in n[2]}>>
      [] n[1] \in {4, 5} -> <<n[1], IgnoreCaseAll(n[2])>>
      [] n[1] \in {6, 7} -> <<n[1], IgnoreCase(n[2]), n[3], n[4]>>
      [] n[1] = 8 -> Grp(n[2], IgnoreCase(n[3]))
      [] n[1] = 12 -> OneOf([i \in DOMAIN n[2] |-> Lower(n[2][i])])
      [] OTHER -> n

\* The characters a match of the pattern can begin with: any is TRUE when
\* that is unknown, and empty when the match can be of no character at all.
RECURSIVE First(_)
RECURSIVE FirstOfCat(_, _)
RECURSIVE FirstOfAlt(_, _)
Starts(cs, empty) == [any |-> FALSE, cs |-> cs, empty |-> empty]
Join(a, b) == [any |-> a.any \/ b.any, cs |-> a.cs \cup b.cs, empty |-> a.empty \/ b.empty]
Then(a, b) ==
    IF a.empty THEN [any |-> a.any \/ b.any, cs |-> a.cs \cup b.cs, empty |-> b.empty] ELSE a
FirstOfCat(ns, k) ==
    IF k > Len(ns) THEN Starts({}, TRUE) ELSE Then(First(ns[k]), FirstOfCat(ns, k + 1))
FirstOfAlt(ns, k) ==
    IF k > Len(ns) THEN Starts({}, FALSE) ELSE Join(First(ns[k]), FirstOfAlt(ns, k + 1))
First(n) ==
    CASE n[1] = 1 -> Starts({Ch(n[2], 1)} \ {""}, n[2] = "")
      [] n[1] = 2 -> Starts(n[2], FALSE)
      [] n[1] = 3 -> [any |-> TRUE, cs |-> {}, empty |-> FALSE]
      [] n[1] = 4 -> FirstOfCat(n[2], 1)
      [] n[1] = 5 -> FirstOfAlt(n[2], 1)
      [] n[1] \in {6, 7} -> Join(First(n[2]), Starts({}, n[3] = 0))
      [] n[1] = 8 -> First(n[3])
      [] n[1] = 12 -> Starts({Ch(n[2][i], 1) : i \in DOMAIN n[2]} \ {""},
                            \E i \in DOMAIN n[2] : n[2][i] = "")
      [] OTHER -> Starts({}, TRUE)

\* A match in progress is <<position, groups>>. Ends gives the matches the
\* pattern n can reach from those of sts, in the order in which the
\* backtracking of the re module would try them.
One(ok, i, caps) == IF ok THEN <<<<i, caps>>>> ELSE <<>>
SetRun(n, low, i) ==
    IF n[1] = 2 THEN RunLen(low, i, n[2])
    ELSE FindCh(low, i, n[2]) - i
Down(st, lo, r) == [k \in 1..(r - lo + 1) |-> <<st[1] + r - k + 1, st[2]>>]
Up(st, lo, r) == [k \in 1..(r - lo + 1) |-> <<st[1] + lo + k - 1, st[2]>>]
Capture(sts, k, s, i) ==
    [j \in DOMAIN sts |->
        <<sts[j][1], [sts[j][2] EXCEPT ![k] = Some(SubSeq(s, i, sts[j][1] - 1))]>>]
Moved(sts, i) == SelectSeq(sts, LAMBDA st : st[1] > i)
Shift(ws, st) == [j \in DOMAIN ws |-> <<st[1] + Len(ws[j]), st[2]>>]
RECURSIVE Ends(_, _, _, _)
EndsOne(n, s, low, st) ==
    CASE n[1] = 1 ->
           One(SubSeq(low, st[1], Min2(Len(s), st[1] + Len(n[2]) - 1)) = n[2],
               st[1] + Len(n[2]), st[2])
      [] n[1] = 2 -> One(Ch(low, st[1]) \in n[2], st[1] + 1, st[2])
      [] n[1] = 3 -> One(st[1] <= Len(s) /\ Ch(low, st[1]) \notin n[2], st[1] + 1, st[2])
      [] n[1] = 5 ->
           IF Len(n[2]) = 0 THEN <<>>
           ELSE Ends(n[2][1], s, low, <<st>>) \o Ends(Alt(Tail(n[2])), s, low, <<st>>)
      [] n[1] = 6 ->
           IF n[2][1] \in {2, 3}
           THEN Down(st, n[3], Min2(n[4], SetRun(n[2], low, st[1])))
           ELSE IF n[4] = 0 THEN <<st>>
           ELSE IF n[3] > 0
                THEN Ends(Rep(n[2], n[3] - 1, n[4] - 1), s, low, Ends(n[2], s, low, <<st>>))
           ELSE Ends(Rep(n[2], 0, n[4] - 1), s, low,
                     Moved(Ends(n[2], s, low, <<st>>), st[1])) \o <<st>>
      [] n[1] = 7 ->
           IF n[2][1] \in {2, 3}
           THEN Up(st, n[3], Min2(n[4], SetRun(n[2], low, st[1])))
           ELSE IF n[4] = 0 THEN <<st>>
           ELSE IF n[3] > 0
                THEN Ends(Lazy(n[2], n[3] - 1, n[4] - 1), s, low, Ends(n[2], s, low, <<st>>))
           ELSE <<st>> \o Ends(Lazy(n[2], 0, n[4] - 1), s, low,
                               Moved(Ends(n[2], s, low, <<st>>), st[1]))
      [] n[1] = 8 -> Capture(Ends(n[3], s, low, <<st>>), n[2], s, st[1])
      [] n[1] = 9 -> One(st[1] = 1, st[1], st[2])
      [] n[1] = 10 -> One(st[1] = Len(s) + 1, st[1], st[2])
      [] n[1] = 11 -> One(WordBoundary(s, st[1]), st[1], st[2])
      [] n[1] = 12 ->
           Shift(SelectSeq(n[2], LAMBDA w :
                     SubSeq(low, st[1], Min2(Len(s), st[1] + Len(w) - 1)) = w), st)
Ends(n, s, low, sts) ==
    IF Len(sts) = 0 THEN sts
    ELSE IF n[1] = 4
         THEN IF Len(n[2]) = 0 THEN sts
              ELSE Ends(Cat(Tail(n[2])), s, low, Ends(n[2][1], s, low, sts))
    ELSE IF Len(sts) = 1 THEN EndsOne(n, s, low, sts[1])
    ELSE Ends(n, s, low, SubSeq(sts, 1, Len(sts) \div 2))
           \o Ends(n, s, low, SubSeq(sts, Len(sts) \div 2 + 1, Len(sts)))

\* A compiled pattern is [re |-> tree, groups |-> number of groups, anchored |->
\* whether it begins with ^, first |-> the characters a match can begin with,
\* None when any position of the subject can begin one]. A match is
\* <<start, end, groups>>, None when there is none; low is the subject as the
\* pattern sees it: in lower case under re.IGNORECASE, and as it is otherwise.
Anchored(n) == n[1] = 4 /\ Len(n[2]) > 0 /\ n[2][1] = Bol
FirstSet(f) == IF f.any \/ f.empty THEN None ELSE Some(f.cs)
Re(n, k) == [re |-> n, groups |-> k, anchored |-> Anchored(n), first |-> FirstSet(First(n))]
ReI(n, k) == Re(IgnoreCase(n), k)
RECURSIVE SearchFrom(_, _, _, _)
SearchHit(r, p, s, low, i) ==
    IF Len(r) > 0 THEN Some(<<i, r[1][1], r[1][2]>>)
    ELSE IF i > Len(s) \/ p.anchored THEN None
    ELSE SearchFrom(p, s, low, i + 1)
SearchAt(p, s, low, i) ==
    IF i > Len(s) + 1 THEN None
    ELSE SearchHit(Ends(p.re, s, low, << <<i, [j \in 1..p.groups |-> None]>> >>), p, s, low, i)
\* the search goes on at position i, or at the next position where a match
\* can begin
SearchFrom(p, s, low, i) ==
    IF p.first = None \/ p.anchored THEN SearchAt(p, s, low, i)
    ELSE SearchAt(p, s, low, FindCh(low, i, p.first[1]))
\* pattern.search(s)
Search(p, s, low) == SearchFrom(p, s, low, 1)
\* m.group(k), "" standing for None
Group(m, k) == IF m[1][3][k] = None THEN "" ELSE m[1][3][k][1]
\* re.sub(pattern, '', s)
RECURSIVE SubFrom(_, _, _, _)
SubHit(m, p, s, low, i) ==
    IF m = None THEN SubSeq(s, i, Len(s))
    ELSE IF m[1][2] > m[1][1]
         THEN SubSeq(s, i, m[1][1] - 1) \o SubFrom(p, s, low, m[1][2])
    ELSE SubSeq(s, i, m[1][1]) \o SubFrom(p, s, low, m[1][1] + 1)
SubFrom(p, s, low, i) ==
    IF i > Len(s) THEN "" ELSE SubHit(SearchFrom(p, s, low, i), p, s, low, i)
Sub(p, s, low) == SubFrom(p, s, low, 1)

\* ------------------------------------- the patterns of parse_prescription_text
Letter == In(UpperSet \cup LowerSet)
\* [A-Za-z][A-Za-z0-9\-\s]{n,}
NameOf(n) ==
    Cat(<<Letter, Rep(In(UpperSet \cup LowerSet \cup Digits \cup {"-"} \cup SpaceChars),
                      n, Many)>>)
\* [A-Z][a-z]+
Capitalized == Cat(<<In(UpperSet), Rep(In(LowerSet), 1, Many)>>)
Units4 == OneOf(<<"mg", "mcg", "g", "ml">>)
Units5 == OneOf(<<"mg", "mcg", "g", "ml", "iu">>)
Opt(n) == Rep(n, 0, 1)

\* lines 126-134
dosage_rx ==
    ReI(Alt(<<
        Cat(<<Wb, Grp(1, Cat(<<Grp(2, Num), S0,
                  Grp(3, OneOf(<<"mg", "mcg", "g", "ml", "iu", "units">>))>>))>>),
        Grp(4, Cat(<<Grp(5, Num), S0,
                  Grp(6, OneOf(<<"tablet", "tab", "capsule", "cap", "pill", "pills">>))>>)),
        Grp(7, Cat(<<Grp(8, Num), S0,
                  Grp(9, Alt(<<OneOf(<<"teaspoon", "tsp", "tablespoon", "tbsp">>),
                               Cat(<<Lit("tb"), S1, Lit("spoon")>>),
                               OneOf(<<"drop", "drops", "ml">>)>>))>>)),
        Grp(10, Cat(<<Grp(11, Num), S0, Lit("/"), S0, Grp(12, Num), S0,
                  Grp(13, OneOf(<<"mg", "ml">>))>>)),
        Grp(14, Cat(<<Grp(15, Num), S0, Lit("%"), S0,
                  Grp(16, OneOf(<<"w/w", "w/v", "cream", "ointment">>))>>)),
        Grp(17, Cat(<<Grp(18, Num), S0, Grp(19, OneOf(<<"caps", "capsules">>))>>))
    >>), 19)

\* lines 136-149: the labels in the order of the dict, each with its keywords
freq_map == <<
    <<"once daily", {"od", "once daily", "qd", "daily", "q.d.", "q24h", "q 24h",
                     "once a day", "1x daily", "by mouth daily", "by mouth-daily",
                     "mouth daily", "mouth-daily", "orally daily"}>>,
    <<"twice daily", {"bd", "twice daily", "bid", "b.i.d", "b.i.d.", "q12h", "q 12h",
                      "2x daily", "twice a day", "by mouth twice", "mouth twice"}>>,
    <<"three times daily", {"tid", "t.d.s", "tds", "t.i.d", "t.i.d.", "three times",
                            "3x daily", "thrice daily", "by mouth three times",
                            "mouth three times"}>>,
    <<"four times daily", {"qid", "q.i.d", "q.i.d.", "q6h", "q 6h", "4x daily",
                           "four times"}>>,
    <<"every 8 hours", {"q8h", "q 8h", "every 8 hours", "every 8 hrs",
                        "every eight hours"}>>,
    <<"every 12 hours", {"q12h", "q 12h", "every 12 hours", "every 12 hrs",
                         "every twelve hours"}>>,
    <<"at bedtime", {"hs", "qhs", "at bedtime", "bedtime", "night", "nightly"}>>,
    <<"as needed", {"sos", "prn", "p.r.n", "as needed", "when required", "as directed"}>>,
    <<"every 6 hours", {"q6h", "q 6h", "every 6 hours", "every 6 hrs"}>> >>

\* lines 151-156
header_rx ==
    ReI(Cat(<<Grp(1, Alt(<<
            Cat(<<Lit("dr"), Opt(Lit("."))>>),
            OneOf(<<"doctor", "physician", "specialist", "patient", "dob", "age", "sex",
                    "gender", "date", "address", "phone", "license", "allergies", "weight",
                    "height", "diagnosis", "prescription">>),
            Cat(<<Lit("rx"), S0, Lit("no")>>),
            Cat(<<Lit("reg"), S0, Lit("no")>>),
            Cat(<<Lit("internal"), S0, Lit("medicine")>>), OneOf(<<"md", "npi">>),
            Cat(<<Lit("health"), S0, Lit("ave")>>),
            Cat(<<Lit("business"), S0, Lit("city")>>)>>)), Wb>>), 1)

\* lines 158-167
med_patterns == <<
    ReI(Cat(<<Bol, S0, Lit("rx"), S0, Rep(D, 0, Many), S0, Opt(In({":", "."})), S0,
              Grp(1, NameOf(2)), S1, Grp(2, Num), S0, Grp(3, Units5), S0,
              Opt(Grp(4, OneOf(<<"tablet", "tab", "capsule", "cap", "syrup", "drops">>)))>>), 4),
    ReI(Cat(<<Bol, S0, Lit("rx"), S0, Opt(In({":", "."})), S0,
              Grp(1, NameOf(2)), S1, Grp(2, Num), S0, Grp(3, Units5)>>), 3),
    ReI(Cat(<<Bol, S0, D1, Opt(Lit(".")), S1,
              Grp(1, NameOf(2)), S1, Grp(2, Num), S0, Grp(3, Units5)>>), 3),
    ReI(Cat(<<Bol, Grp(1, NameOf(2)), S1, Grp(2, Num), S0, Grp(3, Units5), S0,
              Opt(Grp(4, OneOf(<<"tablet", "tab", "capsule", "cap", "syrup", "drops",
                                 "cream", "ointment">>)))>>), 4),
    ReI(Cat(<<Bol, Grp(1, Cat(<<Capitalized, S1, Capitalized>>)), S1,
              Grp(2, Num), S0, Grp(3, Units4)>>), 3),
    ReI(Cat(<<Bol, S0, Grp(1, NameOf(3)), S0, Opt(In({",", ":"})), S0,
              Grp(2, Num), S0, Grp(3, Units4), Wb>>), 3),
    ReI(Cat(<<Bol, Grp(1, NameOf(2)), S0, In({"(", "["}), Lazy(NotIn({"\n"}), 0, Many),
              Grp(2, Num), S0, Grp(3, Units4)>>), 3),
    ReI(Cat(<<Bol, Grp(1, NameOf(2)), S1, Grp(2, Num), S0, Grp(3, Units4)>>), 3) >>

\* lines 169-172
name_patterns == <<
    ReI(Cat(<<Bol, Grp(1, Cat(<<Capitalized, Rep(Cat(<<S1, Capitalized>>), 0, Many)>>)),
              S0, Opt(Cat(<<D1, S0, Units4>>))>>), 1),
    ReI(Cat(<<Bol, Grp(1, Cat(<<In(UpperSet), Rep(In(LowerSet), 3, Many)>>)), Wb>>), 1) >>

\* ------------------------------------------------ medicine name and dosage
\* str.strip(chars)
RECURSIVE LStripSet(_, _)
LStripSet(s, cs) == IF Ch(s, 1) \in cs THEN LStripSet(SubSeq(s, 2, Len(s)), cs) ELSE s
RECURSIVE RStripSet(_, _)
RStripSet(s, cs) ==
    IF Ch(s, Len(s)) \in cs THEN RStripSet(SubSeq(s, 1, Len(s) - 1), cs) ELSE s
\* str.split()
SplitWords(s) == SelectSeq(SplitOn(s, SpaceChars), LAMBDA w : w # "")
\* any(w.lower() in invalid for w in name.split()[:2])
AnyInvalid(ws, invalid) == \E i \in 1..Min2(2, Len(ws)) : Lower(ws[i]) \in invalid
\* lines 191-192 and 221-222: the name without its edges and its form words
SubLow(p, s) == Sub(p, s, Lower(s))
NameOfGroup(g, form_words) == Strip(SubLow(form_words, RStripSet(LStripSet(g, {" ", "-", ",", ":"}),
                                                                  {" ", "-", ",", ":"})))
\* the first of the patterns ps, from the k-th on, to match the line
RECURSIVE FirstMatch(_, _, _, _)
FirstMatchHit(m, ps, k, ln, low) ==
    IF m # None THEN m ELSE FirstMatch(ps, k + 1, ln, low)
FirstMatch(ps, k, ln, low) ==
    IF k > Len(ps) THEN None ELSE FirstMatchHit(Search(ps[k], ln, low), ps, k, ln, low)

\* line 192
strict_form_words ==
    ReI(Cat(<<Wb, Grp(1, OneOf(<<"sig", "take", "tablet", "capsule", "tab", "cap", "syrup",
                                 "drops", "cream", "ointment">>)), Wb>>), 1)
\* line 203
strict_invalid == {"dr", "doctor", "patient", "date", "weight", "height", "internal",
                   "medicine", "specialist"}
\* lines 200-207
StrictSet(data, name, dose) ==
    [data EXCEPT !.med_name = IF /\ @ = None
                                 /\ Len(name) >= 3
                                 /\ ~AnyInvalid(SplitWords(name), strict_invalid)
                              THEN Some(name) ELSE @,
                 !.dosage = IF @ = None THEN Some(dose) ELSE @]
\* lines 189-208: the first pattern to match decides
StrictTake(data, m) ==
    IF m = None THEN data
    ELSE StrictSet(data, NameOfGroup(Group(m, 1), strict_form_words),
                   Group(m, 2) \o " " \o Group(m, 3))
\* (every medicine line replaces the name and the dosage an earlier line gave)
StrictLineLast(data, ln) ==
    LET m == FirstMatch(med_patterns, 1, ln, Lower(ln))
    IN  IF m = None THEN data
        ELSE [data EXCEPT !.med_name = Some(NameOfGroup(Group(m, 1), strict_form_words)),
                          !.dosage = Some(Group(m, 2) \o " " \o Group(m, 3))]
\* lines 187-208
StrictLine(data, ln) ==
    IF data.med_name # None /\ data.dosage # None THEN data
    ELSE StrictTake(data, FirstMatch(med_patterns, 1, ln, Lower(ln)))
\* lines 186-208
RECURSIVE StrictPass(_, _)
StrictPass(data, lines) ==
    IF Len(lines) = 0 THEN data ELSE StrictPass(StrictLine(data, lines[1]), Tail(lines))

\* line 215
admin_rx ==
    ReI(Cat(<<Wb, Grp(1, Alt(<<OneOf(<<"phone", "address", "license", "npi">>),
                               Cat(<<Lit("health"), S1, Lit("ave")>>),
                               Cat(<<Lit("business"), S1, Lit("city")>>),
                               Lit("specialist"),
                               Cat(<<Lit("internal"), S1, Lit("medicine")>>)>>)), Wb>>), 1)
\* line 222
fallback_form_words ==
    ReI(Cat(<<Wb, Grp(1, Alt(<<OneOf(<<"sig", "take", "tablet", "capsule", "tab", "cap",
                                       "syrup", "drops", "cream", "ointment">>),
                               Cat(<<Lit("instruction"), Opt(Lit("s"))>>)>>)), Wb>>), 1)
\* line 226
fallback_invalid == strict_invalid \cup {"name", "dob", "phone", "address"}
\* line 228
FirstTwo(ws) == IF Len(ws) > 1 THEN ws[1] \o " " \o ws[2] ELSE ws[1]
\* lines 224-229: the name a match gives, None when it is refused
FallbackName(name) ==
    IF Len(name) >= 3 /\ ~AnyInvalid(SplitWords(name), fallback_invalid)
    THEN Some(FirstTwo(SplitWords(name))) ELSE None
\* lines 218-229: the patterns in turn, until one gives a name
RECURSIVE FallbackPatterns(_, _, _)
FallbackGot(name, k, ln, low) ==
    IF name # None THEN name ELSE FallbackPatterns(k + 1, ln, low)
FallbackMatch(m, k, ln, low) ==
    IF m = None THEN FallbackPatterns(k + 1, ln, low)
    ELSE FallbackGot(FallbackName(NameOfGroup(Group(m, 1), fallback_form_words)), k, ln, low)
FallbackPatterns(k, ln, low) ==
    IF k > Len(name_patterns) THEN None
    ELSE FallbackMatch(Search(name_patterns[k], ln, low), k, ln, low)
\* lines 213-216
IsHeader(ln, low) == Search(header_rx, ln, low) # None
FallbackLine(ln, low) ==
    IF IsHeader(ln, low) \/ Search(admin_rx, ln, low) # None THEN None
    ELSE FallbackPatterns(1, ln, low)
\* lines 212-231
RECURSIVE FallbackLines(_)
FallbackNext(name, lines) == IF name # None THEN name ELSE FallbackLines(Tail(lines))
FallbackLines(lines) ==
    IF Len(lines) = 0 THEN None ELSE FallbackNext(FallbackLine(lines[1], Lower(lines[1])), lines)
\* (the fallback runs whatever the strict pass found)
FallbackAlways(data, lines) == [data EXCEPT !.med_name = FallbackLines(lines)]
\* lines 211-231
Fallback(data, lines) ==
    IF data.med_name # None THEN data
    ELSE [data EXCEPT !.med_name = FallbackLines(lines)]

\* line 237
instr_rx ==
    ReI(Cat(<<Wb, Grp(1, Alt(<<OneOf(<<"take", "sig">>), Cat(<<Lit("instruction"), Opt(Lit("s"))>>),
                               Cat(<<Lit("by"), S1, Lit("mouth")>>),
                               Cat(<<Lit("one"), S1, Lit("tablet")>>),
                               OneOf(<<"twice", "thrice">>)>>)), Wb>>), 1)
\* line 242
count_rx == ReI(Cat(<<Bol, D1, S0, Grp(1, OneOf(<<"tablet", "tab", "cap", "capsule">>)), Eol>>), 1)
\* line 250
form_rx == ReI(Cat(<<Bol, Grp(1, OneOf(<<"tablet", "tab", "cap", "capsule">>)), Eol>>), 1)
\* lines 241-244: the first group that is not a bare count of tablets
RECURSIVE FirstDose(_, _)
IsCount(g) == Search(count_rx, g, Lower(g)) # None
FirstDose(m, k) ==
    IF k > 19 THEN ""
    ELSE IF Strip(Group(m, k)) # "" /\ ~IsCount(Strip(Group(m, k))) THEN Strip(Group(m, k))
    ELSE FirstDose(m, k + 1)
\* lines 246-251
WholeMatch(m, ln) == Strip(SubSeq(ln, m[1][1], m[1][2] - 1))
DoseText(data, ln, low, text) ==
    IF text = "" \/ (Search(instr_rx, ln, low) # None /\ Search(form_rx, text, Lower(text)) # None)
    THEN data
    ELSE [data EXCEPT !.dosage = Some(text)]
DoseOf(data, ln, low, m, dose) ==
    IF dose # "" THEN [data EXCEPT !.dosage = Some(dose)]
    ELSE DoseText(data, ln, low, WholeMatch(m, ln))
DosageMatch(data, ln, low, m) ==
    IF m = None THEN data ELSE DoseOf(data, ln, low, m, FirstDose(m, 1))
\* lines 236-251
DosageSection(data, ln, low) ==
    IF data.dosage # None THEN data ELSE DosageMatch(data, ln, low, Search(dosage_rx, ln, low))

\* ---------------------------------------------------------------- frequency
\* the substrings of s
Substrings(s) == UNION {{SubSeq(s, i, j) : j \in i..Len(s)} : i \in 1..Len(s)}
\* lines 256-259: the first label of freq_map with a keyword in the line
RECURSIVE TableLabel(_, _)
TableLabel(subs, k) ==
    IF k > Len(freq_map) THEN None
    ELSE IF freq_map[k][2] \cap subs # {} THEN Some(freq_map[k][1])
    ELSE TableLabel(subs, k + 1)
\* lines 262-267
take_rx == <<
    Re(Cat(<<Wb, Lit("take"), Wb, S0, OneOf(<<"1", "one">>), Wb>>), 0),
    Re(Cat(<<Wb, Lit("take"), Wb, S0, OneOf(<<"2", "two">>), Wb>>), 0),
    Re(Cat(<<Wb, Lit("take"), Wb, S0, OneOf(<<"3", "three", "thrice">>), Wb>>), 0) >>
TakeLabel(low) ==
    IF Search(take_rx[1], low, low) # None THEN Some("once daily")
    ELSE IF Search(take_rx[2], low, low) # None THEN Some("twice daily")
    ELSE IF Search(take_rx[3], low, low) # None THEN Some("three times daily")
    ELSE None
Prefer(a, b) == IF a # None THEN a ELSE b
\* (the wording heuristic is tried before the keyword table)
HeuristicFirst(table, low) == Prefer(TakeLabel(low), table)
\* lines 256-267: the table, and the wording heuristic when the table misses
TableFirst(table, low) == Prefer(table, TakeLabel(low))
\* lines 254-267
FrequencySection(data, low) ==
    IF data.frequency # None THEN data
    ELSE [data EXCEPT !.frequency = TableFirst(TableLabel(Substrings(low), 1), low)]

\* ------------------------------------------------------------------- height
\* a decimal numeral as [n |-> its digits as a number, k |-> digits after the point]
Decimal(s) ==
    [n |-> IntOf(SubSeq(s, 1, FindCh(s, 1, {"."}) - 1)
                   \o SubSeq(s, FindCh(s, 1, {"."}) + 1, Len(s))),
     k |-> IF FindCh(s, 1, {"."}) > Len(s) THEN 0 ELSE Len(s) - FindCh(s, 1, {"."})]
RECURSIVE Pow10(_)
Pow10(k) == IF k = 0 THEN 1 ELSE 10 * Pow10(k - 1)
\* round(num / den), which rounds a half to the even neighbour
Round(num, den) ==
    IF 2 * (num % den) > den \/ (2 * (num % den) = den /\ (num \div den) % 2 = 1)
    THEN (num \div den) + 1 ELSE num \div den
\* lines 321, 327, 334, 346 and 357
height_rx == <<
    ReI(Cat(<<Wb, Grp(1, OneOf(<<"height", "ht">>)), Wb, Rep(In(SpaceChars \cup {":"}), 0, Many),
              Opt(Lit("j")), S0,
              Grp(2, Cat(<<Rep(D, 2, 3), Opt(Cat(<<Lit("."), D1>>))>>))>>), 2),
    ReI(Cat(<<Wb, Grp(1, Cat(<<Rep(D, 2, 3), Opt(Cat(<<Lit("."), D1>>))>>)), S0,
              Alt(<<OneOf(<<"cm", "cms">>), Cat(<<Lit("centimeter"), Opt(Lit("s"))>>)>>), Wb>>), 1),
    ReI(Cat(<<Wb, Grp(1, D), S0, Alt(<<OneOf(<<"feet", "foot", "ft">>), In({"'"})>>), S0,
              Grp(2, Rep(D, 1, 2)), S0,
              Opt(Alt(<<OneOf(<<"inches", "inch", "in">>), In({"\""})>>)), Wb>>), 2),
    ReI(Cat(<<Wb, Grp(1, Num), S0, Lit("ft"), Wb>>), 1),
    ReI(Cat(<<Wb, Grp(1, Cat(<<D, Lit("."), Rep(D, 1, 2)>>)), S0, Lit("m"), Wb>>), 1) >>
\* lines 324 and 330: 50 <= float(g) <= 250
InRangeAsWritten(g) ==
    /\ 50 * Pow10(Decimal(g).k) <= Decimal(g).n
    /\ Decimal(g).n <= 250 * Pow10(Decimal(g).k)
\* lines 340, 351 and 362: 100 <= cm <= 250
InRangeConverted(cm) == 100 <= cm /\ cm <= 250
\* (no bound on a height written in centimeters)
WrittenUnbounded(data, g) == [data EXCEPT !.height = Some(g)]
\* lines 323-325 and 329-331
Written(data, g) == IF InRangeAsWritten(g) THEN [data EXCEPT !.height = Some(g)] ELSE data
\* lines 340-341, 351-352 and 362-363
Converted(data, cm) ==
    IF InRangeConverted(cm) THEN [data EXCEPT !.height = Some(StrOf(cm))] ELSE data
\* lines 357-363
Meters(data, m) ==
    IF m = None THEN data
    ELSE Converted(data, Round(Decimal(Group(m, 1)).n * 100, Pow10(Decimal(Group(m, 1)).k)))
\* lines 346-363
DecimalFeet(data, ln, low, m) ==
    IF m = None THEN Meters(data, Search(height_rx[5], ln, low))
    ELSE Converted(data, Round(Decimal(Group(m, 1)).n * 3048,
                               100 * Pow10(Decimal(Group(m, 1)).k)))
\* lines 334-363
FeetInches(data, ln, low, m) ==
    IF m = None THEN DecimalFeet(data, ln, low, Search(height_rx[4], ln, low))
    ELSE Converted(data, Round(3048 * IntOf(Group(m, 1)) + 254 * IntOf(Group(m, 2)), 100))
\* lines 327-363
Centimeters(data, ln, low, m) ==
    IF m = None THEN FeetInches(data, ln, low, Search(height_rx[3], ln, low))
    ELSE Written(data, Group(m, 1))
\* lines 321-363
Labelled(data, ln, low, m) ==
    IF m = None THEN Centimeters(data, ln, low, Search(height_rx[2], ln, low))
    ELSE Written(data, Group(m, 2))
\* lines 320-365
HeightSection(data, ln, low) ==
    IF data.height # None THEN data ELSE Labelled(data, ln, low, Search(height_rx[1], ln, low))

\* ------------------------------------------- last resort for the medicine name
\* lines 398-404
last_rx == <<
    ReI(Cat(<<Wb, Grp(1, Alt(<<OneOf(<<"phone", "address", "license", "npi">>),
                               Cat(<<Lit("health"), S1, Lit("ave")>>),
                               Cat(<<Lit("business"), S1, Lit("city")>>),
                               Lit("specialist"),
                               Cat(<<Lit("internal"), S1, Lit("medicine")>>),
                               Cat(<<Lit("patient"), S1, Lit("name")>>),
                               OneOf(<<"date:", "dob:">>)>>)), Wb>>), 1),
    Re(Cat(<<Bol, In(UpperSet), Rep(In(LowerSet), 2, Many)>>), 0),
    ReI(Cat(<<Bol, Grp(1, Alt(<<Cat(<<Lit("dr"), Opt(Lit("."))>>),
                                OneOf(<<"patient", "date", "dob", "weight", "height",
                                        "allergies", "sig", "take", "instructions">>)>>))>>), 1),
    Re(Cat(<<Bol, Rep(In({"-", ".", ")"} \cup Digits \cup SpaceChars), 1, Many)>>), 0),
    ReI(Cat(<<Bol, Lit("r"), S0, Lit("x"), S0, Rep(D, 0, Many), S0, Opt(In({":", "."})), S0>>), 0),
    ReI(Cat(<<Wb, Grp(1, Alt(<<OneOf(<<"tab", "tablet", "caps", "capsule", "cap", "syrup",
                                       "drop", "drops", "inj", "injection", "ointment",
                                       "cream", "sig", "take">>),
                               Cat(<<Lit("instruction"), Opt(Lit("s"))>>)>>)), Wb,
              Opt(Lit(".")), Opt(Lit(",")), S0>>), 1) >>
\* line 408
last_invalid == {"internal", "medicine", "specialist", "patient", "doctor", "dr", "name",
                 "date", "weight", "height", "dob"}
\* lines 402-404
Candidate(ln) == SubLow(last_rx[6], SubLow(last_rx[5], Sub(last_rx[4], ln, ln)))
\* lines 409-413
LastName(filtered) ==
    IF Len(filtered) = 0 THEN None
    ELSE IF Len(filtered) > 1 /\ Ch(filtered[2], 1) \in UpperSet
         THEN Some(filtered[1] \o " " \o filtered[2])
    ELSE Some(filtered[1])
LastWords(ws) ==
    LastName(SelectSeq(SubSeq(ws, 1, Min2(3, Len(ws))), LAMBDA w : Lower(w) \notin last_invalid))
\* lines 398-414
LastLine(ln, low) ==
    IF IsHeader(ln, low) \/ Search(last_rx[1], ln, low) # None THEN None
    ELSE IF Search(last_rx[2], ln, ln) # None /\ Search(last_rx[3], ln, low) = None
         THEN LastWords(SplitWords(Candidate(ln)))
    ELSE None
RECURSIVE LastLines(_)
LastNext(name, lines) == IF name # None THEN name ELSE LastLines(Tail(lines))
LastLines(lines) ==
    IF Len(lines) = 0 THEN None ELSE LastNext(LastLine(lines[1], Lower(lines[1])), lines)
\* lines 396-414
LastResort(data, lines) ==
    IF data.med_name # None THEN data ELSE [data EXCEPT !.med_name = LastLines(lines)]

\* ------------------------------------------------- parse_prescription_text
\* lines 179-183, the keys whose extraction is modelled
EmptyData == [med_name |-> None, dosage |-> None, frequency |-> None, time |-> None,
              age |-> None, age_group |-> None, height |-> None]

\* lines 234-365: what one turn of the loop does to data
AfterAge(r, ln, low) ==
    IF r.exc THEN r ELSE [exc |-> FALSE, data |-> HeightSection(r.data, ln, low)]
AfterTime(r, ln, today) == IF r.exc THEN r ELSE AgeSection(r.data, ln, today)
LineBodyLow(data, ln, low, today) ==
    AfterAge(AfterTime(TimeSection(FrequencySection(DosageSection(data, ln, low), low), ln),
                       ln, today), ln, low)
LineBody(data, ln, today) == LineBodyLow(data, ln, Lower(ln), today)

\* lines 234-393: the loop over the lines; an exception ends it
RECURSIVE FieldLoop(_, _, _)
FieldLoop(r, lines, today) ==
    IF r.exc \/ Len(lines) = 0 THEN r
    ELSE FieldLoop(LineBody(r.data, lines[1], today), Tail(lines), today)

\* lines 185-416: the passes over the lines, one after the other
AfterLoop(r, lines) ==
    IF r.exc THEN r ELSE [exc |-> FALSE, data |-> LastResort(r.data, lines)]
ParseOf(lines, today) ==
    AfterLoop(FieldLoop([exc |-> FALSE, data |-> Fallback(StrictPass(EmptyData, lines), lines)],
                        lines, today), lines)

\* lines 121-416: exc is TRUE when the call raises, and data is what it returns
parse_prescription_text(text, today) == ParseOf(ParseLines(text), today)

\* ------------------------------------------------------------- _clean_text
PunctChars == {",", ".", ":", ";", "!", "?"}

\* (whitespace collapsed a pair at a time: re.sub(r'\s\s', ' ', line))
RECURSIVE CollapsePairs(_, _)
CollapsePairs(s, i) ==
    IF i > Len(s) THEN ""
    ELSE IF Ch(s, i) \in SpaceChars /\ Ch(s, i + 1) \in SpaceChars
         THEN " " \o CollapsePairs(s, i + 2)
         ELSE Ch(s, i) \o CollapsePairs(s, i + 1)

\* line 64: re.sub(r'\s+', ' ', line)
RECURSIVE CollapseSpaces(_, _)
CollapseSpaces(s, i) ==
    IF i > Len(s) THEN ""
    ELSE LET n == RunLen(s, i, SpaceChars)
         IN  IF n > 0 THEN " " \o CollapseSpaces(s, i + n)
             ELSE Ch(s, i) \o CollapseSpaces(s, i + 1)

\* line 65: re.sub(r'\s*([,.:;!?])\s*', r'\1 ', line)
RECURSIVE SpacePunct(_, _)
SpacePunct(s, i) ==
    IF i > Len(s) THEN ""
    ELSE LET n == RunLen(s, i, SpaceChars)
             p == i + n
         IN  IF Ch(s, p) \in PunctChars
             THEN Ch(s, p) \o " "
                    \o SpacePunct(s, p + 1 + RunLen(s, p + 1, SpaceChars))
             ELSE Ch(s, i) \o SpacePunct(s, i + 1)

\* lines 66-69: re.sub(r'\b<from>\b', '<to>', line), case-sensitive
RECURSIVE SubWord(_, _, _, _)
SubWord(s, i, from, to) ==
    IF i > Len(s) THEN ""
    ELSE IF /\ i + Len(from) - 1 <= Len(s)
            /\ SubSeq(s, i, i + Len(from) - 1) = from
            /\ WordBoundary(s, i)
            /\ WordBoundary(s, i + Len(from))
         THEN to \o SubWord(s, i + Len(from), from, to)
         ELSE Ch(s, i) \o SubWord(s, i + 1, from, to)

\* lines 70-72: re.sub(r'\b(\d+)\s*<UNIT>\b', r'\1 <unit>', line, re.IGNORECASE)
RECURSIVE SubUnit(_, _, _)
SubUnit(s, i, unit) ==
    IF i > Len(s) THEN ""
    ELSE LET nd == RunLen(s, i, Digits)
             u  == i + nd + RunLen(s, i + nd, SpaceChars)
         IN  IF /\ WordBoundary(s, i)
                /\ nd > 0
                /\ LitAt(s, u, unit)
                /\ WordBoundary(s, u + Len(unit))
             THEN SubSeq(s, i, i + nd - 1) \o " " \o unit
                    \o SubUnit(s, u + Len(unit), unit)
             ELSE Ch(s, i) \o SubUnit(s, i + 1, unit)

\* lines 64-72: the rewriting of one stripped line
CleanLine(line) ==
    LET l1 == CollapseSpaces(line, 1)
        l2 == SpacePunct(l1, 1)
        l3 == SubWord(l2, 1, "0D", "OD")
        l4 == SubWord(l3, 1, "BD", "BD")
        l5 == SubWord(l4, 1, "TDS", "TDS")
        l6 == SubWord(l5, 1, "QID", "QID")
        l7 == SubUnit(l6, 1, "mg")
        l8 == SubUnit(l7, 1, "ml")
    IN  SubUnit(l8, 1, "mcg")

CleanAll(lines) == [i \in DOMAIN lines |-> CleanLine(lines[i])]

\* lines 53-76
_clean_text(text) ==
    IF text = "" THEN text
    ELSE JoinLines(CleanAll(SelectSeq(StripAll(SplitOn(text, {"\n"})),
                                      LAMBDA ln : ln # "")))

\* ================================================================== state
\* The server answers every request in a thread of its own (main.py 884,
\* app.run), so a call and the thread that runs it are one thing here.
VARIABLES
    EASYOCR_AVAILABLE,      \* ocr_service.py 16-23: whether `import easyocr` worked
    OCR_SERVICE_AVAILABLE,  \* main.py 73-81: whether `import ocr_service` worked
    _reader,                \* ocr_service.py 17: 0 is None, c > 0 the Reader object
                            \* that call c constructed
    readers_made,           \* the easyocr.Reader objects constructed so far
    files,                  \* the temporary files on disk, each named after the
                            \* call that created it
    now,                    \* what datetime.now() returns
    pc,                     \* per call: where it is
    loc,                    \* per call: its locals, and what it returned
    p_text,                 \* the text handed to parse_prescription_text on its own
    p_out,                  \* and what that call gave
    read_results,           \* what readtext returned, for the filter on its own
    user_medicines,         \* the rows of table user_medicines; a row's id is its
                            \* position (AUTO_INCREMENT)
    users,                  \* the rows of table users, by id
    today,                  \* the calendar day, as a day number: date.today(),
                            \* CURDATE() and DATE(NOW())
    reqs,                   \* per request thread of main.py: where it is, and its
                            \* locals
    served                  \* how many requests and calls have been started

ocr_vars == <<EASYOCR_AVAILABLE, OCR_SERVICE_AVAILABLE, _reader, readers_made, files,
              now, pc, loc, p_text, p_out>>
app_vars == <<read_results, user_medicines, users, today, reqs, served>>
vars == <<ocr_vars, app_vars>>

\* no user, no medicine and no request: the tables as the OCR runs see them
AppIdle ==
    /\ read_results = <<>>
    /\ user_medicines = <<>>
    /\ users = <<>>
    /\ today = 0
    /\ reqs = <<>>
    /\ served = 0

Calls == 1..MaxCalls

\* the values datetime.now() takes in the runs explored
Nows == {<<2026, 11, 2>>, <<2024, 2, 29>>}

\* ocr_service.py 111: the cutoff 0.5, with confidences counted in hundredths
ConfCutoff == 50

\* what easyocr's readtext may return for an image: spans <<text, confidence>>
SpanTexts == {"Age:45", " "}
SpanConfs == {49, 50}
Spans == SpanTexts \X SpanConfs
ReadResults == UNION {[1..n -> Spans] : n \in 0..MaxSpans}

\* the locals of a call that has not started
\* (raised remembers the exception a stage raised, kept how many spans reached
\* the cutoff, used the Reader object readtext was called on)
NoLoc == [via |-> "none", logged_in |-> FALSE, called |-> FALSE, newr |-> 0,
          used |-> 0, tmp_name |-> 0, tmp_path |-> 0, kept |-> None, text |-> "",
          raised |-> None, result |-> None, response |-> None]

\* (a success dict that forgets the text)
SuccessResultNoText(data, text) ==
    [success |-> TRUE, data |-> Some(data), raw_text |-> None, engine |-> "easyocr"]

\* ocr_service.py 425-430 and 432-438: the two dicts extract_prescription_data returns
SuccessResult(data, text) ==
    [success |-> TRUE, data |-> Some(data), raw_text |-> Some(text),
     engine |-> "easyocr"]
FailureResult(e) ==
    [success |-> FALSE, error |-> Some(e), data |-> None, raw_text |-> None,
     engine |-> "easyocr"]

\* (an availability check that always says yes)
is_ocr_available_always == TRUE

\* main.py 78-79 (the stub) and ocr_service.py 441-443
is_ocr_available == IF OCR_SERVICE_AVAILABLE THEN EASYOCR_AVAILABLE ELSE FALSE

JsonResponse(status, body) == [status |-> status, body |-> body]
\* (the message alone, without the success flag)
ErrorBodyBare(msg) == [error |-> msg]
\* main.py 660-685: the body of every answer that is not the extraction result
ErrorBody(msg) == [success |-> FALSE, error |-> msg]

\* where a call goes once extract_prescription_data has returned
AfterReturn(c) == IF loc[c].via = "handler" THEN "respond" ELSE "done"

\* the locals that die when extract_prescription_data returns
Returned(l, result) ==
    [l EXCEPT !.newr = 0, !.tmp_path = 0, !.text = "", !.result = Some(result)]

\* (no except clause: the exception leaves extract_prescription_data)
Uncaught(c, e, l) ==
    /\ loc' = [loc EXCEPT ![c] = l]
    /\ pc' = [pc EXCEPT ![c] = "done"]

\* ocr_service.py 431-438: an exception e raised in the try block of
\* extract_prescription_data becomes the failure dict
Caught(c, e, l) ==
    /\ loc' = [loc EXCEPT ![c] = Returned(l, FailureResult(e))]
    /\ pc' = [pc EXCEPT ![c] = AfterReturn(c)]

\* a stage of the pipeline raises e with the locals l: the exception unwinds
\* to the except clause of extract_prescription_data
Raise(c, e, l) == Caught(c, e, [l EXCEPT !.raised = Some(e)])

\* the process after its imports, before any call
Init ==
    /\ OCR_SERVICE_AVAILABLE \in BOOLEAN
    /\ EASYOCR_AVAILABLE \in BOOLEAN
    /\ (~OCR_SERVICE_AVAILABLE => ~EASYOCR_AVAILABLE)
    /\ _reader = 0
    /\ readers_made = {}
    /\ files = {}
    /\ now = <<2026, 11, 2>>
    /\ pc = [c \in Calls |-> "new"]
    /\ loc = [c \in Calls |-> NoLoc]
    /\ p_text = ""
    /\ p_out = None
    /\ AppIdle

\* ============================================================== operations
\* main.py 657-678: the /extract_prescription handler up to the pipeline call
HandleRequest(c) ==
    /\ pc[c] = "new"
    /\ \E logged_in, has_file, has_name, decodes \in BOOLEAN :
         LET l == [NoLoc EXCEPT !.via = "handler", !.logged_in = logged_in]
             answer(status, msg) ==
                 /\ loc' = [loc EXCEPT ![c] = [l EXCEPT !.response =
                               Some(JsonResponse(status, ErrorBody(msg)))]]
                 /\ pc' = [pc EXCEPT ![c] = "done"]
         IN  IF ~logged_in THEN answer(401, "Not logged in")
             ELSE IF ~OCR_SERVICE_AVAILABLE \/ ~is_ocr_available
                  THEN answer(500, "EasyOCR not available. Install: pip install easyocr")
             ELSE IF ~has_file THEN answer(400, "No file uploaded")
             ELSE IF ~has_name THEN answer(400, "Empty filename")
             ELSE IF ~decodes THEN answer(500, "cannot identify image file")
             ELSE /\ loc' = [loc EXCEPT ![c] = [l EXCEPT !.called = TRUE]]
                  /\ pc' = [pc EXCEPT ![c] = "check_reader"]
    /\ UNCHANGED <<app_vars, EASYOCR_AVAILABLE, OCR_SERVICE_AVAILABLE, _reader, readers_made,
                   files, now, p_text, p_out>>

\* ocr_service.py 419-422: extract_prescription_data called by another caller
\* than the handler, which needs the module to have been imported
DirectCall(c) ==
    /\ pc[c] = "new"
    /\ OCR_SERVICE_AVAILABLE
    /\ loc' = [loc EXCEPT ![c] = [NoLoc EXCEPT !.via = "direct", !.called = TRUE]]
    /\ pc' = [pc EXCEPT ![c] = "check_reader"]
    /\ UNCHANGED <<app_vars, EASYOCR_AVAILABLE, OCR_SERVICE_AVAILABLE, _reader, readers_made,
                   files, now, p_text, p_out>>

\* (a Reader built on every call, whatever _reader holds)
CheckReaderEager(c) ==
    /\ pc[c] = "check_reader"
    /\ IF ~EASYOCR_AVAILABLE THEN Raise(c, "EasyOCR not available", loc[c])
       ELSE /\ pc' = [pc EXCEPT ![c] = "construct"]
            /\ loc' = loc
    /\ UNCHANGED <<app_vars, EASYOCR_AVAILABLE, OCR_SERVICE_AVAILABLE, _reader, readers_made,
                   files, now, p_text, p_out>>

\* ocr_service.py 83-86: the availability test and the test `_reader is None`
CheckReader(c) ==
    /\ pc[c] = "check_reader"
    /\ IF ~EASYOCR_AVAILABLE THEN Raise(c, "EasyOCR not available", loc[c])
       ELSE /\ pc' = [pc EXCEPT ![c] = IF _reader = 0 THEN "construct"
                                        ELSE "preprocess"]
            /\ loc' = loc
    /\ UNCHANGED <<app_vars, EASYOCR_AVAILABLE, OCR_SERVICE_AVAILABLE, _reader, readers_made,
                   files, now, p_text, p_out>>

\* ocr_service.py 87, the call easyocr.Reader(...): a new object, or an exception
Construct(c) ==
    /\ pc[c] = "construct"
    /\ \E built \in BOOLEAN :
         IF built
         THEN /\ readers_made' = readers_made \cup {c}
              /\ loc' = [loc EXCEPT ![c].newr = c]
              /\ pc' = [pc EXCEPT ![c] = "store"]
         ELSE /\ readers_made' = readers_made
              /\ Raise(c, "Reader could not be constructed", loc[c])
    /\ UNCHANGED <<app_vars, EASYOCR_AVAILABLE, OCR_SERVICE_AVAILABLE, _reader, files,
                   now, p_text, p_out>>

\* ocr_service.py 87, the assignment to the global _reader
Store(c) ==
    /\ pc[c] = "store"
    /\ _reader' = loc[c].newr
    /\ pc' = [pc EXCEPT ![c] = "preprocess"]
    /\ UNCHANGED <<app_vars, EASYOCR_AVAILABLE, OCR_SERVICE_AVAILABLE, readers_made, files,
                   now, loc, p_text, p_out>>

\* ocr_service.py 89: _preprocess_image returns an image or raises
Preprocess(c) ==
    /\ pc[c] = "preprocess"
    /\ \E done \in BOOLEAN :
         IF done THEN /\ pc' = [pc EXCEPT ![c] = "mktemp"]
                      /\ loc' = loc
         ELSE Raise(c, "image could not be preprocessed", loc[c])
    /\ UNCHANGED <<app_vars, EASYOCR_AVAILABLE, OCR_SERVICE_AVAILABLE, _reader, readers_made,
                   files, now, p_text, p_out>>

\* ocr_service.py 91-93: NamedTemporaryFile(delete=False) creates the file, then
\* image.save writes it or raises; tmp_path is assigned only after the save
MakeTemp(c) ==
    /\ pc[c] = "mktemp"
    /\ files' = files \cup {c}
    /\ \E saved \in BOOLEAN :
         LET l == [loc[c] EXCEPT !.tmp_name = c]
         IN  IF saved
             THEN /\ loc' = [loc EXCEPT ![c] = [l EXCEPT !.tmp_path = c]]
                  /\ pc' = [pc EXCEPT ![c] = "readtext"]
             ELSE Raise(c, "image could not be saved", l)
    /\ UNCHANGED <<app_vars, EASYOCR_AVAILABLE, OCR_SERVICE_AVAILABLE, _reader, readers_made,
                   now, p_text, p_out>>

\* (a span exactly at the cutoff is discarded too)
KeptSpansAbove(results) == SelectSeq(results, LAMBDA r : r[2] > ConfCutoff)
\* ocr_service.py 111: the spans that reach the cutoff, and their texts joined
KeptSpans(results) == SelectSeq(results, LAMBDA r : r[2] >= ConfCutoff)
SpanTextsOf(kept) == [i \in DOMAIN kept |-> kept[i][1]]
JoinKept(results) == JoinLines(SpanTextsOf(KeptSpans(results)))

\* ocr_service.py 112: _clean_text(text) or text
OrElse(cleaned, text) == IF cleaned # "" THEN cleaned ELSE text
CleanOrRaw(text) == OrElse(_clean_text(text), text)

\* ocr_service.py 95-118: readtext on the global _reader, the filter, and the
\* finally clause that removes tmp_path on both ways out
ReadText(c) ==
    /\ pc[c] = "readtext"
    /\ files' = files \ {loc[c].tmp_path}
    /\ \E read \in BOOLEAN :
         LET l == [loc[c] EXCEPT !.used = _reader]
         IN  IF read
             THEN /\ \E results \in ReadResults :
                       loc' = [loc EXCEPT ![c] =
                                 [l EXCEPT !.kept = Some(Len(KeptSpans(results))),
                                           !.text = CleanOrRaw(JoinKept(results))]]
                  /\ pc' = [pc EXCEPT ![c] = "parse"]
             ELSE Raise(c, "readtext failed", l)
    /\ UNCHANGED <<app_vars, EASYOCR_AVAILABLE, OCR_SERVICE_AVAILABLE, _reader, readers_made,
                   now, p_text, p_out>>

\* ocr_service.py 423-430: the parse and the success dict
ParseOutcome(c, r) ==
    IF r.exc THEN Raise(c, "parse failed", loc[c])
    ELSE /\ loc' = [loc EXCEPT ![c] =
                       Returned(loc[c], SuccessResult(r.data, loc[c].text))]
         /\ pc' = [pc EXCEPT ![c] = AfterReturn(c)]
Parse(c) ==
    /\ pc[c] = "parse"
    /\ ParseOutcome(c, parse_prescription_text(loc[c].text, now))
    /\ UNCHANGED <<app_vars, EASYOCR_AVAILABLE, OCR_SERVICE_AVAILABLE, _reader, readers_made,
                   files, now, p_text, p_out>>

\* main.py 680-683: the handler's answer from the pipeline's result
Respond(c) ==
    /\ pc[c] = "respond"
    /\ LET result == loc[c].result[1]
       IN  loc' = [loc EXCEPT ![c].response =
                      Some(IF result.success THEN JsonResponse(200, result)
                           ELSE JsonResponse(500, ErrorBody(result.error[1])))]
    /\ pc' = [pc EXCEPT ![c] = "done"]
    /\ UNCHANGED <<app_vars, EASYOCR_AVAILABLE, OCR_SERVICE_AVAILABLE, _reader, readers_made,
                   files, now, p_text, p_out>>

Step(c) ==
    \/ HandleRequest(c)
    \/ DirectCall(c)
    \/ CheckReader(c)
    \/ Construct(c)
    \/ Store(c)
    \/ Preprocess(c)
    \/ MakeTemp(c)
    \/ ReadText(c)
    \/ Parse(c)
    \/ Respond(c)

\* calls run concurrently, their steps interleaved in any order
Next == \E c \in Calls : Step(c)

Spec == Init /\ [][Next]_vars

\* calls run one after the other: a call starts when no other is under way
Quiet(c) == \A d \in Calls \ {c} : pc[d] \in {"new", "done"}
NextSeq ==
    \E c \in Calls :
        \/ Quiet(c) /\ HandleRequest(c)
        \/ Quiet(c) /\ DirectCall(c)
        \/ Quiet(c) /\ CheckReader(c)
        \/ Quiet(c) /\ Construct(c)
        \/ Quiet(c) /\ Store(c)
        \/ Quiet(c) /\ Preprocess(c)
        \/ Quiet(c) /\ MakeTemp(c)
        \/ Quiet(c) /\ ReadText(c)
        \/ Quiet(c) /\ Parse(c)
        \/ Quiet(c) /\ Respond(c)

SpecSeq == Init /\ [][NextSeq]_vars

\* ------------------------------------ parse_prescription_text on its own
\* the lines of the texts parsed
\* the texts parse_prescription_text is called with: up to MaxLines lines, all
\* from one family of lines
AgeLines == {"Age: 0", "Age: 17", "Age: 18", "Age: 120", "Page 30"}
AgeLines2 == {"Age: 1", "Age: 64", "Age: 65", "Age: 121", "DOB: 0 Jan 1990"}
DobLines == {"DOB: 15 Jun 1900", "DOB: 15 Jun 1906", "DOB: 15 Jun 2008",
             "DOB: 15 Jun 2026", "DOB: 15 Jun 2101"}
DobLines2 == {"dob 31 Feb 1961", "Date of Birth: 29 February 2024",
              "birth date: 5 May 2100", "Age: 200 DOB: 15 Jun 2020", " "}
TimeLines == {"14:30", "00:15", "12:00", "at 24:00", "14 : 05"}
TimeLines2 == {"8:30 pm", "0:05 Age: 9", "25:00 14:30", "14:30 then 8:00 pm",
               "11: 59"}
HeightLines == {"Height: 170", "Ht: 49", "99 cm", "Height: 300", "height 250.5 cm"}
HeightLines2 == {"5 ft 6 in", "3 ft 2 in", "9 ft 11 in", "1.75 m", "0.95 m"}
HeightLines3 == {"5.6 ft", "6.25 ft", "2.55 m", "5'6\"", "251 cm"}
FreqLines == {"take 2", "night take 2", "take two daily", "q12h", "Ibuprofen 200 mg"}
FreqLines2 == {"take 1 tablet", "take thrice", "every 6 hours", "q6h"}
MedLines == {"Amoxicillin 500 mg TID", "amoxicillin 500 mg tid", "Codeine 30 mg QID",
             "Aspirin 100mg", "aspirin 100 MG"}
MarkerLines == {"Rx", "1.", "III", "1. Metformin 500mg", "Metformin"}
HeaderLines == {"Patient weight 3500 g", "Diagnosis Hypertension 5 mg", "Dr Smith 5 g",
                "Patient: John Doe, DOB: 01 Jan 1990", "Date: 12 mg"}
InstrLines == {"Take one tablet daily", "Give twice daily", "Apply to skin", "Use as directed"}
DecimalLines == {"2.5 mg", "1.75 m", "5.6 ft", "Height: 170.5"}
LineFamilies == {AgeLines, AgeLines2, DobLines, DobLines2, TimeLines, TimeLines2,
                 HeightLines, HeightLines2, HeightLines3, FreqLines, FreqLines2,
                 MedLines, MarkerLines, HeaderLines, InstrLines, DecimalLines}
ParseLineSet == UNION LineFamilies

LineSeqs == UNION {[1..n -> F] : n \in 0..MaxLines, F \in LineFamilies}
ParseTexts == {JoinLines(ls) : ls \in LineSeqs}

InitParse ==
    /\ OCR_SERVICE_AVAILABLE = TRUE
    /\ EASYOCR_AVAILABLE = TRUE
    /\ _reader = 0
    /\ readers_made = {}
    /\ files = {}
    /\ now \in Nows
    /\ pc = [c \in Calls |-> "new"]
    /\ loc = [c \in Calls |-> NoLoc]
    /\ p_text \in ParseTexts
    /\ p_out = None
    /\ AppIdle

\* ocr_service.py 121-416: one call of parse_prescription_text(p_text)
ParseCall ==
    /\ p_out = None
    /\ p_out' = Some(parse_prescription_text(p_text, now))
    /\ UNCHANGED <<app_vars, EASYOCR_AVAILABLE, OCR_SERVICE_AVAILABLE, _reader, readers_made,
                   files, now, pc, loc, p_text>>

SpecParse == InitParse /\ [][ParseCall]_vars

\* ----------------------------------------------- _clean_text on its own
\* the texts _clean_text is called with: up to MaxTokens pieces
MaxTokens == 3
CleanTokens == {" ", "\n", "\t  ", ".", ":", "5", "0D", "Mg", "mcg", "a"}
RECURSIVE Concat(_)
Concat(seq) == IF Len(seq) = 0 THEN "" ELSE seq[1] \o Concat(Tail(seq))
CleanTexts == {Concat(ts) : ts \in UNION {[1..n -> CleanTokens] : n \in 0..MaxTokens}}

InitClean ==
    /\ OCR_SERVICE_AVAILABLE = TRUE
    /\ EASYOCR_AVAILABLE = TRUE
    /\ _reader = 0
    /\ readers_made = {}
    /\ files = {}
    /\ now \in Nows
    /\ pc = [c \in Calls |-> "new"]
    /\ loc = [c \in Calls |-> NoLoc]
    /\ p_text \in CleanTexts
    /\ p_out = None
    /\ AppIdle

\* ocr_service.py 53-76: one call of _clean_text(p_text)
CleanCall ==
    /\ p_out = None
    /\ p_out' = Some(_clean_text(p_text))
    /\ UNCHANGED <<app_vars, EASYOCR_AVAILABLE, OCR_SERVICE_AVAILABLE, _reader, readers_made,
                   files, now, pc, loc, p_text>>

SpecClean == InitClean /\ [][CleanCall]_vars

\* ------------------------------------- the confidence filter on its own
\* the span lists readtext returns here: up to MaxRead spans <<text, confidence>>
MaxRead == 3
ReadSpans == {"Rx", "Take 2"} \X {0, 49, 50, 100}
ReadLists == UNION {[1..n -> ReadSpans] : n \in 0..MaxRead}

\* the OCR process at rest
OcrIdle ==
    /\ OCR_SERVICE_AVAILABLE = TRUE
    /\ EASYOCR_AVAILABLE = TRUE
    /\ _reader = 0
    /\ readers_made = {}
    /\ files = {}
    /\ now = <<2026, 11, 2>>
    /\ pc = [c \in Calls |-> "new"]
    /\ loc = [c \in Calls |-> NoLoc]
    /\ p_text = ""
    /\ p_out = None

InitRead ==
    /\ OcrIdle
    /\ read_results \in ReadLists
    /\ user_medicines = <<>>
    /\ users = <<>>
    /\ today = 0
    /\ reqs = <<>>
    /\ served = 0

\* ocr_service.py 111-112: what extract_text_from_image returns for read_results
ReadCall ==
    /\ p_out = None
    /\ p_out' = Some(CleanOrRaw(JoinKept(read_results)))
    /\ UNCHANGED <<app_vars, EASYOCR_AVAILABLE, OCR_SERVICE_AVAILABLE, _reader,
                   readers_made, files, now, pc, loc, p_text>>

SpecRead == InitRead /\ [][ReadCall]_vars

\* ====================================================== gamification_engine.py
\* A row of table users is [total_points, level, badges, streak_days,
\* last_streak_date, longest_streak]; badges is the comma-joined string the
\* column holds, a date is None or Some(day number). execute_query is taken to
\* reach the database: every statement runs and commits on its own.

\* gamification_engine.py 6-8
points_per_dose == 10
streak_bonus == 5
level_thresholds == <<100, 300, 600, 1000, 1500, 2000, 3000, 5000>>
\* gamification_engine.py 9-18: the points of each badge
badges ==
    [k \in {"first_dose", "week_streak", "month_streak", "perfect_week", "early_bird",
            "night_owl", "level_5", "level_10"} |->
        CASE k = "first_dose" -> 50
          [] k = "week_streak" -> 100
          [] k = "month_streak" -> 300
          [] k = "perfect_week" -> 150
          [] k = "early_bird" -> 75
          [] k = "night_owl" -> 75
          [] k = "level_5" -> 200
          [] k = "level_10" -> 500]

\* gamification_engine.py 20-30
calculate_points(dose_taken, on_time) ==
    IF dose_taken THEN points_per_dose + (IF on_time THEN streak_bonus ELSE 0) ELSE 0

\* ','.join(list)
RECURSIVE JoinCommas(_)
JoinCommas(list) ==
    IF Len(list) = 0 THEN ""
    ELSE IF Len(list) = 1 THEN list[1]
    ELSE list[1] \o "," \o JoinCommas(Tail(list))
\* gamification_engine.py 146-147: current_badges.split(',') if current_badges else []
BadgesList(current_badges) ==
    IF current_badges = "" THEN <<>> ELSE SplitOn(current_badges, {","})
InList(x, list) == \E i \in 1..Len(list) : list[i] = x

\* (the badge is appended and its points added whether or not it is held)
award_badge_again(us, user_id, badge_key) ==
    IF badge_key \notin DOMAIN badges \/ user_id \notin DOMAIN us THEN us
    ELSE [us EXCEPT ![user_id].badges =
                        JoinCommas(Append(BadgesList(@), badge_key)),
                    ![user_id].total_points = @ + badges[badge_key]]
\* gamification_engine.py 132-159: the users table after award_badge
award_badge(us, user_id, badge_key) ==
    IF badge_key \notin DOMAIN badges THEN us
    ELSE IF user_id \notin DOMAIN us THEN us
    ELSE IF InList(badge_key, BadgesList(us[user_id].badges)) THEN us
    ELSE [us EXCEPT ![user_id].badges =
                        JoinCommas(Append(BadgesList(@), badge_key)),
                    ![user_id].total_points = @ + badges[badge_key]]

\* gamification_engine.py 110-115: the loop over the thresholds, from index i
RECURSIVE LevelFrom(_, _, _)
LevelFrom(i, total_points, new_level) ==
    IF i > Len(level_thresholds) THEN new_level
    ELSE IF total_points >= level_thresholds[i] THEN LevelFrom(i + 1, total_points, i + 1)
    ELSE new_level
NewLevel(total_points) == LevelFrom(1, total_points, 1)

\* gamification_engine.py 123-126
LevelBadges(us, user_id, new_level) ==
    IF new_level >= 10
    THEN award_badge(award_badge(us, user_id, "level_5"), user_id, "level_10")
    ELSE IF new_level >= 5 THEN award_badge(us, user_id, "level_5")
    ELSE us
\* gamification_engine.py 117-130
LevelUp(us, user_id, new_level) ==
    IF new_level > us[user_id].level
    THEN LevelBadges([us EXCEPT ![user_id].level = new_level], user_id, new_level)
    ELSE us
\* gamification_engine.py 97-130
check_level_up(us, user_id) ==
    IF user_id \notin DOMAIN us THEN us
    ELSE LevelUp(us, user_id, NewLevel(us[user_id].total_points))
\* gamification_engine.py 89-95
add_points(us, user_id, points) ==
    IF user_id \notin DOMAIN us THEN us
    ELSE check_level_up([us EXCEPT ![user_id].total_points = @ + points], user_id)

\* A row of table user_medicines is [user_id, medicine_name, status,
\* daily_doses_taken, total_doses_required, adherence_score, last_taken];
\* last_taken is None or Some(day number), the date of NOW().

\* gamification_engine.py 49-56: the user's active medicines taken on that day
DosesToday(meds, user_id, day) ==
    Cardinality({i \in 1..Len(meds) : /\ meds[i].user_id = user_id
                                      /\ meds[i].status = "active"
                                      /\ meds[i].last_taken = Some(day)})
\* (a second call on the same day counts the day again)
NewStreakRecounted(user, doses_taken_today, day) ==
    IF doses_taken_today > 0
    THEN IF user.last_streak_date # None /\ day - user.last_streak_date[1] <= 1
         THEN user.streak_days + 1
         ELSE 1
    ELSE 0
\* gamification_engine.py 58-73
NewStreak(user, doses_taken_today, day) ==
    IF doses_taken_today > 0
    THEN IF user.last_streak_date = Some(day) THEN user.streak_days
         ELSE IF user.last_streak_date # None /\ day - user.last_streak_date[1] = 1
              THEN user.streak_days + 1
         ELSE 1
    ELSE 0
\* gamification_engine.py 75-85
StreakRow(user, new_streak, day) ==
    [user EXCEPT !.streak_days = new_streak,
                 !.last_streak_date = Some(day),
                 !.longest_streak = IF new_streak > @ THEN new_streak ELSE @]
\* gamification_engine.py 32-87: the users table after update_streak
update_streak(us, meds, user_id, day) ==
    IF user_id \notin DOMAIN us THEN us
    ELSE [us EXCEPT ![user_id] =
            StreakRow(@, NewStreak(@, DosesToday(meds, user_id, day), day), day)]
\* gamification_engine.py 41 and 87: what update_streak returned
ReturnedStreak(us, user_id) == IF user_id \notin DOMAIN us THEN 0 ELSE us[user_id].streak_days

\* ---------------------------------------------------------- main.py handlers
\* main.py 116-121: the import of gamification_engine worked
GAMIFICATION_ENABLED == TRUE

\* main.py 739-740: the row with that id, if it is the user's
OwnRow(meds, medicine_id, user_id) ==
    medicine_id \in 1..Len(meds) /\ meds[medicine_id].user_id = user_id
\* (the dose count is raised without the cap)
NewDosesUncapped(current_doses, total_required) == current_doses + 1
\* main.py 750: min(current_doses + 1, total_required)
NewDoses(current_doses, total_required) ==
    IF current_doses + 1 < total_required THEN current_doses + 1 ELSE total_required
\* main.py 753-761: the UPDATE of take_medicine
TakeUpdate(meds, medicine_id, user_id, new_doses, day) ==
    IF ~OwnRow(meds, medicine_id, user_id) THEN meds
    ELSE [meds EXCEPT ![medicine_id].daily_doses_taken = new_doses,
                      ![medicine_id].adherence_score = IF @ + 5 < 100 THEN @ + 5 ELSE 100,
                      ![medicine_id].last_taken = Some(day)]
\* main.py 771-776
StreakBadge(us, user_id, new_streak) ==
    IF new_streak = 1 THEN award_badge(us, user_id, "first_dose")
    ELSE IF new_streak = 7 THEN award_badge(us, user_id, "week_streak")
    ELSE IF new_streak = 30 THEN award_badge(us, user_id, "month_streak")
    ELSE us
AfterStreak(us, user_id) == StreakBadge(us, user_id, ReturnedStreak(us, user_id))
\* main.py 764-776: the users table after the gamification calls of take_medicine
Rewards(us, meds, user_id, day) ==
    IF ~GAMIFICATION_ENABLED THEN us
    ELSE AfterStreak(update_streak(add_points(us, user_id, calculate_points(TRUE, TRUE)),
                                   meds, user_id, day), user_id)
\* main.py 801-806: the UPDATE of miss_medicine
MissUpdate(meds, medicine_id, user_id) ==
    IF ~OwnRow(meds, medicine_id, user_id) THEN meds
    ELSE [meds EXCEPT ![medicine_id].adherence_score = IF @ - 10 > 0 THEN @ - 10 ELSE 0]
\* main.py 825-830: the UPDATE of remove_medicine
RemoveUpdate(meds, medicine_id, user_id) ==
    IF ~OwnRow(meds, medicine_id, user_id) THEN meds
    ELSE [meds EXCEPT ![medicine_id].status = "0"]
\* (the WHERE clause is missing: every user's medicines are cleared)
ClearEveryone(meds, user_id) == [i \in 1..Len(meds) |-> [meds[i] EXCEPT !.status = "0"]]
\* main.py 843-844: the UPDATE of clear_medicines
ClearUpdate(meds, user_id) ==
    [i \in 1..Len(meds) |->
        IF meds[i].user_id = user_id THEN [meds[i] EXCEPT !.status = "0"] ELSE meds[i]]

\* ------------------------------------------------------- requests as threads
\* Flask answers each request in a thread of its own; a thread here serves one
\* request after the other. Each execute_query is one statement on a
\* connection of its own (db_config.py 21-39), so a step is one statement
\* with the Python around it; the gamification calls of take_medicine are
\* taken as one step.
MaxThreads == 2
MaxServed == 2
MaxDay == 3
Threads == 1..MaxThreads
\* session['user_id'] of a logged-in request
UserIds == {1, 2}
\* request.json.get('medicine_id'): a row that exists, one that does not, or nothing (0)
MedicineIds(meds) == 0..(Len(meds) + 1)
\* request.form.get('med_name'): "" when the field is missing
MedNames == {"Aspirin", "Metformin", "Zzz", ""}
\* the names table medicines has a row for (main.py 328-329)
ReferenceMedicines == {"Aspirin", "Metformin"}

IdleReq == [pc |-> "idle", no |-> 0, op |-> "none", user_id |-> 0, medicine_id |-> 0,
            med_name |-> "", new_doses |-> 0, response |-> "none"]
\* a request enters a handler: user_id 0 stands for a session without user_id
Enter(op, user_id, medicine_id, med_name) ==
    [IdleReq EXCEPT !.no = served + 1, !.op = op, !.user_id = user_id,
                    !.medicine_id = medicine_id, !.med_name = med_name]
Answer(r, response) == [r EXCEPT !.pc = "idle", !.response = response]
Goto(r, pc_) == [r EXCEPT !.pc = pc_]
CanStart(t) == reqs[t].pc = "idle" /\ served < MaxServed

\* main.py 298-299, 731-732, 793-794, 814-815, 838-839: no user_id in the session
NotLoggedIn(t) ==
    /\ CanStart(t)
    /\ \E op \in {"add_medicine", "take_medicine", "miss_medicine", "remove_medicine",
                  "clear_medicines"}, id \in MedicineIds(user_medicines) :
         reqs' = [reqs EXCEPT ![t] = Answer(Enter(op, 0, id, ""), "Not logged in")]
    /\ served' = served + 1
    /\ UNCHANGED <<ocr_vars, read_results, user_medicines, users, today>>

\* main.py 735-750: take_medicine up to the UPDATE
TakeMedicine(t) ==
    /\ CanStart(t)
    /\ \E u \in UserIds, id \in MedicineIds(user_medicines) :
         reqs' = [reqs EXCEPT ![t] =
                    IF OwnRow(user_medicines, id, u)
                    THEN [Goto(Enter("take_medicine", u, id, ""), "take_update")
                            EXCEPT !.new_doses =
                                NewDoses(user_medicines[id].daily_doses_taken,
                                         user_medicines[id].total_doses_required)]
                    ELSE Answer(Enter("take_medicine", u, id, ""), "Medicine not found")]
    /\ served' = served + 1
    /\ UNCHANGED <<ocr_vars, read_results, user_medicines, users, today>>

\* main.py 753-761
TakeWrite(t) ==
    /\ reqs[t].pc = "take_update"
    /\ user_medicines' = TakeUpdate(user_medicines, reqs[t].medicine_id, reqs[t].user_id,
                                    reqs[t].new_doses, today)
    /\ reqs' = [reqs EXCEPT ![t] = Goto(@, "take_reward")]
    /\ UNCHANGED <<ocr_vars, read_results, users, today, served>>

\* main.py 763-787
TakeReward(t) ==
    /\ reqs[t].pc = "take_reward"
    /\ users' = Rewards(users, user_medicines, reqs[t].user_id, today)
    /\ reqs' = [reqs EXCEPT ![t] = Answer(@, "success")]
    /\ UNCHANGED <<ocr_vars, read_results, user_medicines, today, served>>

\* main.py 797-808
MissMedicine(t) ==
    /\ CanStart(t)
    /\ \E u \in UserIds, id \in MedicineIds(user_medicines) :
         /\ user_medicines' = MissUpdate(user_medicines, id, u)
         /\ reqs' = [reqs EXCEPT ![t] = Answer(Enter("miss_medicine", u, id, ""), "success")]
    /\ served' = served + 1
    /\ UNCHANGED <<ocr_vars, read_results, users, today>>

\* main.py 818-832
RemoveMedicine(t) ==
    /\ CanStart(t)
    /\ \E u \in UserIds, id \in MedicineIds(user_medicines) :
         IF id = 0
         THEN /\ reqs' = [reqs EXCEPT ![t] =
                            Answer(Enter("remove_medicine", u, id, ""), "Medicine ID required")]
              /\ UNCHANGED user_medicines
         ELSE /\ user_medicines' = RemoveUpdate(user_medicines, id, u)
              /\ reqs' = [reqs EXCEPT ![t] =
                            Answer(Enter("remove_medicine", u, id, ""), "success")]
    /\ served' = served + 1
    /\ UNCHANGED <<ocr_vars, read_results, users, today>>

\* main.py 842-845
ClearMedicines(t) ==
    /\ CanStart(t)
    /\ \E u \in UserIds :
         /\ user_medicines' = ClearUpdate(user_medicines, u)
         /\ reqs' = [reqs EXCEPT ![t] = Answer(Enter("clear_medicines", u, 0, ""), "success")]
    /\ served' = served + 1
    /\ UNCHANGED <<ocr_vars, read_results, users, today>>

\* main.py 336-337: the user's active rows with that name
HasActive(meds, user_id, med_name) ==
    \E i \in 1..Len(meds) : /\ meds[i].user_id = user_id
                            /\ meds[i].medicine_name = med_name
                            /\ meds[i].status = "active"
\* main.py 365-369: the inserted row; adherence_score is 100, and the columns
\* the INSERT does not name take their defaults (an active row, no dose taken
\* of the one required, never taken)
NewRow(user_id, med_name) ==
    [user_id |-> user_id, medicine_name |-> med_name, status |-> "active",
     daily_doses_taken |-> 0, total_doses_required |-> 1, adherence_score |-> 100,
     last_taken |-> None]
\* main.py 323-341: the checks of add_medicine
AddChecked(r, meds) ==
    IF r.med_name = "" THEN Answer(r, "Please fill in all required fields")
    ELSE IF r.med_name \notin ReferenceMedicines THEN Answer(r, "Medicine not found in database")
    ELSE IF HasActive(meds, r.user_id, r.med_name)
         THEN Answer(r, "Medicine already added to your list")
    ELSE Goto(r, "add_insert")

\* main.py 301-362: add_medicine up to the INSERT
AddMedicine(t) ==
    /\ CanStart(t)
    /\ \E u \in UserIds, name \in MedNames :
         reqs' = [reqs EXCEPT ![t] = AddChecked(Enter("add_medicine", u, 0, name),
                                                user_medicines)]
    /\ served' = served + 1
    /\ UNCHANGED <<ocr_vars, read_results, user_medicines, users, today>>

\* main.py 364-382
AddInsert(t) ==
    /\ reqs[t].pc = "add_insert"
    /\ user_medicines' = Append(user_medicines, NewRow(reqs[t].user_id, reqs[t].med_name))
    /\ reqs' = [reqs EXCEPT ![t] = Answer(@, "Medicine added successfully!")]
    /\ UNCHANGED <<ocr_vars, read_results, users, today, served>>

\* gamification_engine.py 132-159: award_badge called on its own
AwardBadgeCall(t) ==
    /\ CanStart(t)
    /\ \E u \in UserIds, k \in {"first_dose", "week_streak", "no_such_badge"} :
         /\ users' = award_badge(users, u, k)
         /\ reqs' = [reqs EXCEPT ![t] = Answer(Enter("award_badge", u, 0, k), "returned")]
    /\ served' = served + 1
    /\ UNCHANGED <<ocr_vars, read_results, user_medicines, today>>

\* gamification_engine.py 32-87: update_streak called on its own
UpdateStreakCall(t) ==
    /\ CanStart(t)
    /\ \E u \in UserIds :
         /\ users' = update_streak(users, user_medicines, u, today)
         /\ reqs' = [reqs EXCEPT ![t] = Answer(Enter("update_streak", u, 0, ""), "returned")]
    /\ served' = served + 1
    /\ UNCHANGED <<ocr_vars, read_results, user_medicines, today>>

\* midnight passes while no request is being served
NextDay ==
    /\ today < MaxDay
    /\ \A t \in Threads : reqs[t].pc = "idle"
    /\ today' = today + 1
    /\ UNCHANGED <<ocr_vars, read_results, user_medicines, users, reqs, served>>

\* ------------------------------------------- the gamification calls in sequence
\* a user who never took a dose, and one six days into a streak (65 points from
\* the first day's dose and badge, nine more doses since)
NewUser == [total_points |-> 0, level |-> 1, badges |-> "", streak_days |-> 0,
            last_streak_date |-> None, longest_streak |-> 0]
StreakUser == [total_points |-> 200, level |-> 2, badges |-> "first_dose", streak_days |-> 6,
               last_streak_date |-> Some(0), longest_streak |-> 6]
InitGame ==
    /\ OcrIdle
    /\ read_results = <<>>
    /\ users \in {(1 :> NewUser), (1 :> StreakUser)}
    /\ user_medicines = << [NewRow(1, "Aspirin") EXCEPT !.total_doses_required = 2],
                           [NewRow(1, "Metformin") EXCEPT !.status = "0"] >>
    /\ today = 1
    /\ reqs = [t \in Threads |-> IdleReq]
    /\ served = 0

\* one request or call at a time, on the first thread
NextGame ==
    \/ TakeMedicine(1)
    \/ TakeWrite(1)
    \/ TakeReward(1)
    \/ AwardBadgeCall(1)
    \/ UpdateStreakCall(1)
    \/ NextDay

SpecGame == InitGame /\ [][NextGame]_vars

\* ------------------------------------------------- the requests, interleaved
InitMeds ==
    /\ OcrIdle
    /\ read_results = <<>>
    /\ users = (1 :> NewUser) @@ (2 :> NewUser)
    /\ user_medicines =
         << [NewRow(1, "Aspirin") EXCEPT !.daily_doses_taken = 1,
                                         !.total_doses_required = 2,
                                         !.adherence_score = 95],
            [NewRow(2, "Aspirin") EXCEPT !.adherence_score = 5] >>
    /\ today = 1
    /\ reqs = [t \in Threads |-> IdleReq]
    /\ served = 0

ReqStep(t) ==
    \/ NotLoggedIn(t)
    \/ TakeMedicine(t)
    \/ TakeWrite(t)
    \/ TakeReward(t)
    \/ MissMedicine(t)
    \/ RemoveMedicine(t)
    \/ ClearMedicines(t)
    \/ AddMedicine(t)
    \/ AddInsert(t)

NextMeds == \E t \in Threads : ReqStep(t)

SpecMeds == InitMeds /\ [][NextMeds]_vars

\* ================================================================== claims

\* C1: every dict extract_prescription_data returns has one of two shapes and
\* never a mix: success with data and raw_text present and no error, or
\* failure with data and raw_text null and an error present.
C1_ResultShape ==
    \A c \in Calls :
        loc[c].result # None =>
            LET r == loc[c].result[1]
            IN  IF r.success
                THEN /\ r.data # None
                     /\ r.raw_text # None
                     /\ "error" \notin DOMAIN r
                ELSE /\ r.data = None
                     /\ r.raw_text = None
                     /\ "error" \in DOMAIN r
                     /\ r.error # None

\* one call has returned the success shape and another the failure shape
C1_Witness ==
    \E c, d \in Calls :
        /\ loc[c].result # None /\ loc[c].result[1].success
        /\ loc[d].result # None /\ ~loc[d].result[1].success

\* C2: an exception raised by a stage inside extract_prescription_data never
\* leaves it: the call returns a dict, and that dict is the failure dict
\* carrying the exception's message.
C2_NoEscape ==
    \A c \in Calls :
        (loc[c].called /\ pc[c] \in {"respond", "done"}) =>
            /\ loc[c].result # None
            /\ loc[c].raised # None =>
                   /\ ~loc[c].result[1].success
                   /\ loc[c].result[1].error = loc[c].raised

\* readtext raised in a call that then returned the failure dict
C2_Witness ==
    \E c \in Calls :
        /\ pc[c] = "done"
        /\ loc[c].raised = Some("readtext failed")
        /\ loc[c].result = Some(FailureResult("readtext failed"))

\* C3: when no span reaches the confidence cutoff, the call does not succeed:
\* extract_prescription_data returns success false.
C3_NoTextIsFailure ==
    \A c \in Calls :
        (loc[c].result # None /\ loc[c].kept = Some(0)) => ~loc[c].result[1].success

\* the engine is unavailable to the handler
Unavailable == ~OCR_SERVICE_AVAILABLE \/ ~EASYOCR_AVAILABLE
UnavailableAnswer ==
    Some(JsonResponse(500,
           ErrorBody("EasyOCR not available. Install: pip install easyocr")))
NotLoggedInAnswer == Some(JsonResponse(401, ErrorBody("Not logged in")))

\* C4 as claimed: whenever the engine is unavailable, the handler answers
\* 'engine unavailable' and never calls extract_prescription_data.
C4_UnavailableAlwaysAnswered ==
    \A c \in Calls :
        (loc[c].via = "handler" /\ pc[c] = "done" /\ Unavailable) =>
            /\ loc[c].response = UnavailableAnswer
            /\ ~loc[c].called

\* C4 as amended: whenever the engine is unavailable, the handler never calls
\* extract_prescription_data; a logged-in request is answered 'engine
\* unavailable', and a request without a session 'Not logged in'.
C4_UnavailableNeverCalls ==
    \A c \in Calls :
        (loc[c].via = "handler" /\ Unavailable) =>
            /\ ~loc[c].called
            /\ pc[c] = "done"
            /\ loc[c].response = IF loc[c].logged_in THEN UnavailableAnswer
                                 ELSE NotLoggedInAnswer

\* a logged-in request met an unavailable engine and was answered so
C4_Witness ==
    \E c \in Calls :
        /\ loc[c].via = "handler" /\ loc[c].logged_in /\ Unavailable
        /\ pc[c] = "done" /\ ~loc[c].called
        /\ loc[c].response = UnavailableAnswer

\* C5: over calls made one after the other, no Reader exists before the first
\* call, at most one is ever constructed, _reader holds it from then on, every
\* readtext runs on it, and a call past the construction step finds it there.
C5_LazySingleton ==
    /\ (\A c \in Calls : pc[c] = "new") => (_reader = 0 /\ readers_made = {})
    /\ Cardinality(readers_made) <= 1
    /\ _reader # 0 => readers_made = {_reader}
    /\ \A c \in Calls : loc[c].used # 0 => loc[c].used = _reader
    /\ \A c \in Calls :
           pc[c] \in {"preprocess", "mktemp", "readtext", "parse"} => _reader # 0

\* the first call built the Reader and a later call ran readtext on the same one
C5_Witness ==
    \E c, d \in Calls :
        /\ c # d
        /\ pc[c] = "done" /\ pc[d] = "done"
        /\ readers_made = {c}
        /\ loc[c].used = c /\ loc[d].used = c

\* C6: under any interleaving of concurrent calls, at most one Reader is
\* constructed and no readtext runs on a Reader other than the shared _reader.
C6_OneSharedModel ==
    /\ Cardinality(readers_made) <= 1
    /\ \A c \in Calls : loc[c].used \in {0, _reader}

\* C7: once a call has returned or raised, the temporary file it created is
\* no longer on disk.
C7_TempFileDeleted ==
    \A c \in Calls :
        pc[c] \in {"respond", "done"} => loc[c].tmp_name \notin files

\* lines from which no age can be had: no pattern matches, or the value matched
\* is out of range, or the date does not exist
NoAgeLines == {"Age: 0", "Age: 121", "Page 30", "DOB: 15 Jun 1900",
               "DOB: 15 Jun 2101", "DOB: 0 Jan 1990", "birth date: 5 May 2100",
               " ", "8:30 pm", "at 24:00", "14 : 05"}
NoAgeTexts ==
    {JoinLines(ls) : ls \in UNION {[1..n -> NoAgeLines] : n \in 0..MaxLines}}
\* lines that hold no time of day, or an hour out of range
NoTimeLines == (AgeLines \cup AgeLines2 \cup DobLines \cup DobLines2
                    \cup {"at 24:00"}) \ {"0:05 Age: 9"}
NoTimeTexts ==
    {JoinLines(ls) : ls \in UNION {[1..n -> NoTimeLines] : n \in 0..MaxLines}}

\* C8: parse_prescription_text never raises, it returns every key, and a field
\* is null when the lines match no pattern for it, or only with a value out of
\* range.
C8_NeverRaises ==
    p_out # None =>
        /\ ~p_out[1].exc
        /\ DOMAIN p_out[1].data = {"med_name", "dosage", "frequency", "time", "age",
                                    "age_group", "height"}
        /\ p_text \in NoAgeTexts =>
               (p_out[1].data.age = None /\ p_out[1].data.age_group = None)
        /\ p_text \in NoTimeTexts => p_out[1].data.time = None

\* a date of birth on day 0, which datetime() refuses, then an age out of range:
\* the call returned, with nothing extracted
C8_Witness ==
    /\ p_text = "DOB: 0 Jan 1990\nAge: 121"
    /\ p_out = Some([exc |-> FALSE, data |-> EmptyData])

\* C9: age_group is null exactly when age is, and otherwise it is pediatric
\* below 18, elderly from 65, adult in between.
C9_AgeGroupOfAge ==
    p_out # None =>
        LET d == p_out[1].data
        IN  /\ (d.age = None) <=> (d.age_group = None)
            /\ d.age # None =>
                   d.age_group = Some(IF IntOf(d.age[1]) < 18 THEN "pediatric"
                                      ELSE IF IntOf(d.age[1]) >= 65 THEN "elderly"
                                      ELSE "adult")

\* an age of exactly 18 came out adult
C9_Witness ==
    /\ p_out # None
    /\ p_out[1].data.age = Some("18")
    /\ p_out[1].data.age_group = Some("adult")

\* C10: every age returned lies in 1..120.
C10_AgeInRange ==
    (p_out # None /\ p_out[1].data.age # None) =>
        (IntOf(p_out[1].data.age[1]) >= 1 /\ IntOf(p_out[1].data.age[1]) <= 120)

\* the first H:MM token of a line, as <<hour, minutes, end>>, or None
FirstTimeToken(ln) == Time24Search(ln)
\* some H:MM token of the line is followed by am or pm
HasPeriodToken(ln) == Time12Search(ln) # None
\* the first line of the text to hold an H:MM token
TimeLineOf(text) ==
    LET ls == ParseLines(text)
        ks == {k \in DOMAIN ls : FirstTimeToken(ls[k]) # None}
    IN  IF ks = {} THEN None ELSE Some(ls[CHOOSE k \in ks : \A j \in ks : k <= j])
\* the 12-hour display of hour h (0..23) and minutes mn
Display12(h, mn) ==
    StrOf(IF h = 0 THEN 12 ELSE IF h >= 13 THEN h - 12 ELSE h) \o ":" \o mn
        \o (IF h <= 11 THEN " AM" ELSE " PM")

C17_Idempotent ==
    p_out # None => _clean_text(p_out[1]) = p_out[1]

\* a text the normalizer rewrote in two places, and its result is a fixed point
C17_Witness ==
    /\ p_text = "5Mg."
    /\ p_out = Some("5 mg. ")
    /\ _clean_text("5 mg. ") = "5 mg. "

\* C18: every /extract_prescription request that fails (no session, engine
\* unavailable, no file, empty filename, undecodable image, failed pipeline)
\* is answered, with an error status and the body {success: false, error:
\* message}; a request never ends without an answer.
C18_StructuredFailure ==
    \A c \in Calls :
        (loc[c].via = "handler" /\ pc[c] = "done") =>
            /\ loc[c].response # None
            /\ LET a == loc[c].response[1]
                   failed == loc[c].result = None \/ ~loc[c].result[1].success
               IN  /\ failed <=> a.status # 200
                   /\ failed =>
                          /\ a.status \in {400, 401, 500}
                          /\ DOMAIN a.body = {"success", "error"}
                          /\ a.body.success = FALSE
                          /\ a.body.error \in STRING

\* a request got through to the pipeline, readtext raised, and the answer is
\* the structured failure with status 500
C18_Witness ==
    \E c \in Calls :
        /\ loc[c].via = "handler" /\ pc[c] = "done"
        /\ loc[c].raised = Some("readtext failed")
        /\ loc[c].response = Some(JsonResponse(500, ErrorBody("readtext failed")))

\* "F ft I in" and "M.MM m", as they are written on a line
FeetInchesText(f, i) == StrOf(f) \o " ft " \o StrOf(i) \o " in"
MetersText(cm) ==
    StrOf(cm \div 100) \o "." \o StrOf((cm % 100) \div 10) \o StrOf(cm % 10) \o " m"

\* C12: a height in feet and inches, or in meters, that is plausible (50 to
\* 250 cm) comes out in whole centimeters: F ft I in as round(F*30.48 +
\* I*2.54), M m as round(M*100).
C12_UnitsConverted ==
    p_out # None =>
        /\ \A f \in 1..9, i \in 0..11 :
               (/\ p_text = FeetInchesText(f, i)
                /\ Round(3048 * f + 254 * i, 100) \in 50..250) =>
                   p_out[1].data.height = Some(StrOf(Round(3048 * f + 254 * i, 100)))
        /\ \A cm \in 50..250 :
               p_text = MetersText(cm) => p_out[1].data.height = Some(StrOf(cm))

\* lines whose only height candidate lies outside 50..250 cm, one per path
OutOfRangeHeights ==
    {"Ht: 49", "Height: 300", "height 250.5 cm", "251 cm", "9 ft 11 in", "2.55 m"}
HeightWithin(h, lo, hi) ==
    /\ lo * Pow10(Decimal(h).k) <= Decimal(h).n
    /\ Decimal(h).n <= hi * Pow10(Decimal(h).k)

\* C19: a height that parse_prescription_text returns is a number of
\* centimeters between 50 and 250 inclusive, whichever path produced it, and
\* a text all of whose height candidates are outside that range has a null
\* height.
C19_HeightPlausible ==
    (p_out # None /\ ~p_out[1].exc) =>
        /\ p_out[1].data.height # None => HeightWithin(p_out[1].data.height[1], 50, 250)
        /\ (\A i \in 1..Len(ParseLines(p_text)) : ParseLines(p_text)[i] \in OutOfRangeHeights)
              => p_out[1].data.height = None
C19_Witness ==
    /\ p_text = "Height: 300\n99 cm"
    /\ p_out # None
    /\ p_out[1].data.height = Some("99")

\* the keyword kw occurs in the lower-cased line
KeywordIn(kw, low) ==
    \E i \in 1..(Len(low) - Len(kw) + 1) : SubSeq(low, i, i + Len(kw) - 1) = kw
\* the table has a keyword of its k-th label in the line
LabelIn(k, low) == \E kw \in freq_map[k][2] : KeywordIn(kw, low)
\* what one line says about the frequency: the first label of the table with
\* a keyword in the line, the wording heuristic only when there is none
LineFrequency(low) ==
    IF \E k \in 1..Len(freq_map) : LabelIn(k, low)
    THEN Some(freq_map[CHOOSE k \in 1..Len(freq_map) :
                        LabelIn(k, low) /\ \A j \in 1..(k - 1) : ~LabelIn(j, low)][1])
    ELSE TakeLabel(low)
CanonicalLabels == {freq_map[k][1] : k \in 1..Len(freq_map)}

\* C20: the frequency is what the first line that says anything about it
\* says: on that line the first label of the keyword table (in table order)
\* with a keyword in the line, and the 'take 1/2/3' wording only when the
\* table has none; later lines change nothing; the result is a canonical
\* label or null.
C20_FrequencyTiers ==
    (p_out # None /\ ~p_out[1].exc) =>
        /\ p_out[1].data.frequency \in {None} \cup {Some(l) : l \in CanonicalLabels}
        /\ \A i \in 1..Len(ParseLines(p_text)) :
              (/\ LineFrequency(Lower(ParseLines(p_text)[i])) # None
               /\ \A j \in 1..(i - 1) : LineFrequency(Lower(ParseLines(p_text)[j])) = None)
                 => p_out[1].data.frequency = LineFrequency(Lower(ParseLines(p_text)[i]))
        /\ (\A i \in 1..Len(ParseLines(p_text)) :
                LineFrequency(Lower(ParseLines(p_text)[i])) = None)
              => p_out[1].data.frequency = None
C20_Witness ==
    /\ p_text = "night take 2\nq12h"
    /\ p_out # None
    /\ p_out[1].data.frequency = Some("at bedtime")

\* a word with its first letter in upper case
UpperCh(c) == IF c \in LowerSet THEN Uppers[CHOOSE i \in DOMAIN Lowers : Lowers[i] = c] ELSE c
CapitalizedWord(w) == UpperCh(Ch(w, 1)) \o SubSeq(w, 2, Len(w))
\* the canonical label of a frequency abbreviation: the first label of the
\* table that lists it
AbbreviationLabel(abbr) ==
    freq_map[CHOOSE k \in 1..Len(freq_map) :
                /\ Lower(abbr) \in freq_map[k][2]
                /\ \A j \in 1..(k - 1) : Lower(abbr) \notin freq_map[j][2]][1]
MedicineLine(name, dose, unit, abbr) == name \o " " \o dose \o " " \o unit \o " " \o abbr

\* C13: a one-line text '<Name> <dose> <unit> <frequency abbreviation>' gives
\* the name capitalized, the dosage '<dose> <unit>' and the canonical label
\* of the abbreviation as frequency.
C13_MedicineLine ==
    (p_out # None /\ ~p_out[1].exc) =>
        \A name \in {"Amoxicillin", "amoxicillin", "Codeine"}, dose \in {"500", "30"},
           abbr \in {"TID", "tid", "QID"} :
            p_text = MedicineLine(name, dose, "mg", abbr) =>
                /\ p_out[1].data.med_name = Some(CapitalizedWord(name))
                /\ p_out[1].data.dosage = Some(dose \o " mg")
                /\ p_out[1].data.frequency = Some(AbbreviationLabel(abbr))

\* the first word of a medicine line, and the '<dose> <unit>' it states
FirstWord(ln) == SubSeq(ln, 1, FindCh(ln, 1, {" "}) - 1)
StatedDosage ==
    [ln \in MedLines |->
        CASE ln = "Amoxicillin 500 mg TID" -> "500 mg"
          [] ln = "amoxicillin 500 mg tid" -> "500 mg"
          [] ln = "Codeine 30 mg QID" -> "30 mg"
          [] ln = "Aspirin 100mg" -> "100 mg"
          [] ln = "aspirin 100 MG" -> "100 MG"]
AllMedicineLines(lines) == Len(lines) > 0 /\ \A i \in 1..Len(lines) : lines[i] \in MedLines

\* C14: a prescription never yields the same medicine twice: of several
\* medicine lines the first gives the name and the dosage, and a later line,
\* whether it names the same medicine in another case or a different one, is
\* dropped.
C14_LaterLineDropped ==
    (p_out # None /\ ~p_out[1].exc /\ AllMedicineLines(ParseLines(p_text))) =>
        /\ p_out[1].data.med_name = Some(FirstWord(ParseLines(p_text)[1]))
        /\ p_out[1].data.dosage = Some(StatedDosage[ParseLines(p_text)[1]])
C14_Witness ==
    /\ p_text = "Aspirin 100mg\naspirin 100 MG"
    /\ p_out # None
    /\ p_out[1].data.med_name = Some("Aspirin")
    /\ p_out[1].data.dosage = Some("100 mg")

\* lines that hold a list or prescription marker and nothing else
MarkerOnly == {"Rx", "1.", "III"}

\* C15: a marker-only line followed by a medicine line gives that medicine
\* ('Rx' then '1. Metformin 500mg' gives Metformin, 500 mg), and a marker
\* line never becomes the medicine name.
C15_MarkerThenMedicine ==
    (p_out # None /\ ~p_out[1].exc) =>
        /\ \A mk \in MarkerOnly :
              /\ p_text = JoinLines(<<mk, "1. Metformin 500mg">>) =>
                    /\ p_out[1].data.med_name = Some("Metformin")
                    /\ p_out[1].data.dosage = Some("500 mg")
              /\ p_text = JoinLines(<<mk, "Metformin">>) =>
                    p_out[1].data.med_name = Some("Metformin")
        /\ (Len(ParseLines(p_text)) > 0 /\ ParseLines(p_text)[1] \in MarkerOnly) =>
              p_out[1].data.med_name # Some(ParseLines(p_text)[1])

\* every line of the text matches the administrative-header vocabulary
AllHeaders(lines) ==
    Len(lines) > 0 /\ \A i \in 1..Len(lines) : IsHeader(lines[i], Lower(lines[i]))

\* C16: lines that match the administrative-header vocabulary contribute no
\* medicine name and no dosage: a text made only of such lines has neither,
\* even when the lines hold digits or a dosage unit.
C16_HeadersContributeNothing ==
    (p_out # None /\ ~p_out[1].exc /\ AllHeaders(ParseLines(p_text))) =>
        /\ p_out[1].data.med_name = None
        /\ p_out[1].data.dosage = None

\* a pure instruction line: it begins with an imperative verb and states no
\* dose with a unit
ImperativeVerbs == {"take", "give", "apply", "use"}
PureInstruction(ln) ==
    /\ Lower(FirstWord(ln)) \in ImperativeVerbs
    /\ Search(dosage_rx, ln, Lower(ln)) = None
AllInstructions(lines) ==
    Len(lines) > 0 /\ \A i \in 1..Len(lines) : PureInstruction(lines[i])

\* C21: pure instruction lines (an imperative verb first, no dosage unit)
\* yield no medicine name in any pass: a text made only of such lines, like
\* 'Take one tablet daily', has a null medicine name.
C21_InstructionIsNoMedicine ==
    (p_out # None /\ ~p_out[1].exc /\ AllInstructions(ParseLines(p_text))) =>
        p_out[1].data.med_name = None

\* the medicine name the strict name+dose pass leaves
StrictName(text) == StrictPass(EmptyData, ParseLines(text)).med_name

\* C22: when the strict name+dose pass has set a medicine name, no later
\* pass (name-only fallback, last resort) replaces it: the returned name is
\* the strict pass's.
C22_StrictNameKept ==
    (p_out # None /\ ~p_out[1].exc /\ StrictName(p_text) # None) =>
        p_out[1].data.med_name = StrictName(p_text)
C22_Witness ==
    /\ p_text = "III\n1. Metformin 500mg"
    /\ StrictName(p_text) = Some("Metformin")
    /\ p_out # None
    /\ p_out[1].data.med_name = Some("Metformin")

\* the texts of the spans whose confidence is at least 0.5 (50 hundredths),
\* in the order readtext gave them
RECURSIVE ConfidentTexts(_)
ConfidentTexts(rs) ==
    IF Len(rs) = 0 THEN <<>>
    ELSE IF rs[1][2] < 50 THEN ConfidentTexts(Tail(rs))
    ELSE <<rs[1][1]>> \o ConfidentTexts(Tail(rs))

\* C23: the text extract_text_from_image returns is made of exactly the spans
\* with confidence at least 0.5, in the engine's order: it is the
\* normalization of their texts joined by newlines.
C23_ConfidentSpansOnly ==
    p_out # None => p_out[1] = CleanOrRaw(JoinLines(ConfidentTexts(read_results)))
C23_Witness ==
    /\ read_results = << <<"Take 2", 50>>, <<"Rx", 49>>, <<"Rx", 100>> >>
    /\ p_out = Some("Take 2\nRx")

\* the text is made of lines that state a decimal quantity
AllDecimal(lines) == Len(lines) > 0 /\ \A i \in 1..Len(lines) : lines[i] \in DecimalLines
\* ocr_service.py 112 and 423: what the pipeline parses when text was recognized
ParseOfNormalized(text, date) == parse_prescription_text(CleanOrRaw(text), date)

\* C30: for a text with decimal quantities, parsing the normalized text, as
\* the pipeline does, gives the same dosage and the same height as parsing
\* the text itself.
C30_NormalizationKeepsNumbers ==
    (p_out # None /\ ~p_out[1].exc /\ AllDecimal(ParseLines(p_text))) =>
        /\ ParseOfNormalized(p_text, now).data.dosage = p_out[1].data.dosage
        /\ ParseOfNormalized(p_text, now).data.height = p_out[1].data.height


\* C24: whatever take_medicine and miss_medicine requests are served, in
\* whatever interleaving, every medicine row that started with an adherence
\* score of 0..100 and no more doses taken than required keeps
\* 0 <= adherence_score <= 100 and daily_doses_taken <= total_doses_required.
RowInRange(row) ==
    /\ 0 <= row.adherence_score
    /\ row.adherence_score <= 100
    /\ row.daily_doses_taken <= row.total_doses_required
C24_RowsStayInRange ==
    \A i \in 1..Len(user_medicines) : RowInRange(user_medicines[i])
\* two take requests have been answered for the row that had one dose of two
\* taken and a score of 95: it stands at the cap of both columns
C24_Witness ==
    /\ \A t \in Threads : /\ reqs[t].op = "take_medicine"
                          /\ reqs[t].response = "success"
                          /\ reqs[t].medicine_id = 1
    /\ user_medicines[1].daily_doses_taken = 2
    /\ user_medicines[1].total_doses_required = 2
    /\ user_medicines[1].adherence_score = 100


\* C25: over any sequence of award_badge calls, each badge key appears at most
\* once in a user's badge list; a call for a key the user does not hold appends
\* the key and adds its bonus points once, and a call for a key the user holds,
\* or for an unknown key, changes neither the badge list nor total_points.
NoRepeat(list) == \A i, j \in 1..Len(list) : list[i] = list[j] => i = j
\* the step answers an award_badge call on thread t
AwardStep(t) == reqs'[t].no # reqs[t].no /\ reqs'[t].op = "award_badge"
AwardEffect(before, after, badge_key) ==
    IF badge_key \notin DOMAIN badges \/ InList(badge_key, BadgesList(before.badges))
    THEN after.badges = before.badges /\ after.total_points = before.total_points
    ELSE /\ BadgesList(after.badges) = Append(BadgesList(before.badges), badge_key)
         /\ after.total_points = before.total_points + badges[badge_key]
AwardOnce(t) ==
    AwardStep(t) =>
        /\ DOMAIN users' = DOMAIN users
        /\ \A u \in DOMAIN users :
             IF u = reqs'[t].user_id
             THEN AwardEffect(users[u], users'[u], reqs'[t].med_name)
             ELSE users'[u] = users[u]
BadgesOnce ==
    /\ \A u \in DOMAIN users' : NoRepeat(BadgesList(users'[u].badges))
    /\ \A t \in Threads : AwardOnce(t)
C25_BadgeAwardedOnce == [][BadgesOnce]_vars
\* award_badge was called for the badge the six-day user already holds: the
\* list and the 200 points are what they were
C25_Witness ==
    /\ reqs[1].op = "award_badge"
    /\ reqs[1].user_id = 1
    /\ reqs[1].med_name = "first_dose"
    /\ reqs[1].response = "returned"
    /\ users[1].badges = "first_dose"
    /\ users[1].total_points = 200


\* C26: a call of update_streak for a user who has taken a dose that day leaves
\* streak_days unchanged when last_streak_date is that day, adds exactly 1 when
\* it is the day before, and sets it to 1 after a longer gap or with no
\* previous date, so streak_days grows by at most 1 per calendar day; and after
\* every call longest_streak >= streak_days.
\* the step runs update_streak for the user of thread t: called on its own, or
\* by take_medicine
StreakStep(t) ==
    \/ reqs'[t].no # reqs[t].no /\ reqs'[t].op = "update_streak"
    \/ reqs[t].pc = "take_reward" /\ reqs'[t].pc = "idle"
StreakEffect(before, after, day) ==
    /\ before.last_streak_date = Some(day) => after.streak_days = before.streak_days
    /\ before.last_streak_date = Some(day - 1) => after.streak_days = before.streak_days + 1
    /\ before.last_streak_date = None => after.streak_days = 1
    /\ (before.last_streak_date # None /\ day - before.last_streak_date[1] > 1)
           => after.streak_days = 1
    /\ after.streak_days <= before.streak_days + 1
StreakCounted(t) ==
    (StreakStep(t) /\ reqs'[t].user_id \in DOMAIN users) =>
        /\ users'[reqs'[t].user_id].longest_streak >= users'[reqs'[t].user_id].streak_days
        /\ DosesToday(user_medicines, reqs'[t].user_id, today) > 0
               => StreakEffect(users[reqs'[t].user_id], users'[reqs'[t].user_id], today)
StreakOncePerDay == \A t \in Threads : StreakCounted(t)
C26_StreakOncePerDay == [][StreakOncePerDay]_vars
\* the six-day user took a dose on day 1 (streak 7) and update_streak was then
\* called again the same day: the streak is still 7
C26_Witness ==
    /\ reqs[1].op = "update_streak"
    /\ reqs[1].user_id = 1
    /\ today = 1
    /\ users[1].streak_days = 7
    /\ users[1].last_streak_date = Some(1)
    /\ users[1].longest_streak = 7


\* C27: when a take_medicine request completes, the user's stored level is not
\* behind the stored total_points, badge bonus points of the request included:
\* level >= 1 + the number of level_thresholds that are <= total_points; and
\* the level does not decrease.
ThresholdsReached(total_points) ==
    Cardinality({i \in 1..Len(level_thresholds) : level_thresholds[i] <= total_points})
LevelKeptUp(user) == user.level >= 1 + ThresholdsReached(user.total_points)
\* the step completes a take_medicine request of thread t
TakeCompletes(t) == reqs[t].pc = "take_reward" /\ reqs'[t].pc = "idle"
LevelAfterTake(t) ==
    (TakeCompletes(t) /\ reqs'[t].user_id \in DOMAIN users)
        => LevelKeptUp(users'[reqs'[t].user_id])
LevelFollowsPoints ==
    /\ \A t \in Threads : LevelAfterTake(t)
    /\ \A u \in DOMAIN users : users'[u].level >= users[u].level
C27_LevelFollowsPoints == [][LevelFollowsPoints]_vars


\* C28: a step of a take_medicine, miss_medicine, remove_medicine or
\* clear_medicines request inserts and deletes no row and changes only
\* user_medicines rows whose user_id is the session's user_id; a request with
\* no user logged in changes neither table.
FrameOps == {"take_medicine", "miss_medicine", "remove_medicine", "clear_medicines"}
\* the step belongs to a request of thread t for one of the four handlers
FrameStep(t) == reqs'[t] # reqs[t] /\ reqs'[t].op \in FrameOps
OthersKept(before, after, user_id) ==
    /\ Len(after) = Len(before)
    /\ \A i \in 1..Len(before) : before[i].user_id # user_id => after[i] = before[i]
OwnRowsOnly(t) ==
    FrameStep(t) =>
        /\ OthersKept(user_medicines, user_medicines', reqs'[t].user_id)
        /\ reqs'[t].user_id = 0 => (user_medicines' = user_medicines /\ users' = users)
        /\ \A u \in DOMAIN users : u # reqs'[t].user_id => users'[u] = users[u]
FrameOfRequests == \A t \in Threads : OwnRowsOnly(t)
C28_OwnRowsOnly == [][FrameOfRequests]_vars
\* user 1 cleared their medicines: their row is inactive, the row of user 2 is
\* as it was inserted
C28_Witness ==
    /\ \E t \in Threads : /\ reqs[t].op = "clear_medicines"
                          /\ reqs[t].user_id = 1
                          /\ reqs[t].response = "success"
                          /\ reqs[t].no = served
    /\ user_medicines[1].user_id = 1
    /\ user_medicines[1].status = "0"
    /\ user_medicines[2] = [NewRow(2, "Aspirin") EXCEPT !.adherence_score = 5]


\* C29: a user never has two active user_medicines rows with the same
\* medicine_name, whatever add_medicine requests are served and however they
\* interleave.
SameActive(a, b) ==
    /\ a.user_id = b.user_id
    /\ a.medicine_name = b.medicine_name
    /\ a.status = "active"
    /\ b.status = "active"
C29_OneActiveRowPerName ==
    \A i, j \in 1..Len(user_medicines) :
        SameActive(user_medicines[i], user_medicines[j]) => i = j

====
